---- MODULE Spec2Model ----
(***************************************************************************)
(* A model of bilby/gw/conversion.py: the marginalized-likelihood          *)
(* reconstruction engine (generate_posterior_samples_from_marginalized_    *)
(* likelihood and fill_sample), the mass completion policy                 *)
(* (generate_component_masses) and the completion orchestrator             *)
(* (_generate_all_cbc_parameters).                                         *)
(*                                                                         *)
(* Rows of a table are numbered 0..n-1 as in the source; row k of the      *)
(* table is samples[k + 1].                                                *)
(***************************************************************************)
EXTENDS Integers, Sequences, FiniteSets, TLC

\* ------------------------------------------------------------------ bounds
MaxRows == 3
MaxBlock == 2
MaxPool == 2
MaxMass == 5

\* ------------------------------------------------------------ the reconstruction engine
VARIABLES
    pc,                   \* position of the reconstruction call
    samples,              \* the table passed to the call (one value per row)
    kind,                 \* container type of samples: "DataFrame", "dict", "other"
    nmarg,                \* len(likelihood._marginalized_parameters)
    has_outdir,           \* the likelihood has outdir and label attributes
    use_cache,            \* the use_cache argument, cleared at line 1627
    clean,                \* command_line_args.clean
    npool,                \* the npool argument
    block,                \* the block argument
    cached_samples_dict,  \* the in-memory cache: [samples, blocks], blocks in insertion order
    disk,                 \* the cache file: [kind, samples, blocks]
    ii,                   \* loop index of the block loop
    next_task,            \* first row of the block not yet handed to a worker
    running,              \* rows being computed by a worker
    lik_parameters,       \* for each such row, likelihood.parameters of the worker computing it
    arrived,              \* results of the block in completion order: <<row, value>>
    column,               \* the marginalized column of samples: [set, rows]
    calls,                \* rows for which fill_sample was invoked in this call
    loaded,               \* the blocks of the cache as reused at load time
    prev                  \* the table calls are repeated on, and the killed call before this one

\* ------------------------------------------------------------ generate_component_masses
VARIABLES
    gcm_pc,               \* "call" before generate_component_masses is applied, "done" after
    sample,               \* its sample argument: a dict from keys to values
    require_add,          \* its require_add argument
    source,               \* its source argument
    gcm_result,           \* what the call did: [status, value]
    gmp_pc,               \* "call" before generate_mass_parameters is applied, "done" after
    gmp_result            \* what generate_mass_parameters(sample, source) did

massVars == <<gcm_pc, sample, require_add, source, gcm_result, gmp_pc, gmp_result>>

\* ------------------------------------------------------------ the completion orchestrator
VARIABLES
    o_pc,                 \* the stage _generate_all_cbc_parameters is about to run
    heap,                 \* the sample objects, in order of creation: each a dict
    output_sample,        \* the object output_sample is bound to (0 before line 819)
    given,                \* keys and values of the caller's sample when the call began
    o_kind,               \* container type of the caller's sample
    o_rows,               \* rows of the caller's table: 0 for an empty table
    likelihood,           \* the likelihood argument
    priors,               \* the priors argument
    entry_point,          \* "bbh" or "bns": generate_all_bbh/bns_parameters
    o_error,              \* the exception that left the call
    o_log                 \* the failures the call caught and logged

orchVars == <<o_pc, heap, output_sample, given, o_kind, o_rows, likelihood, priors,
              entry_point, o_error, o_log>>

\* ------------------------------------------------------------ generate_specific_parameters
VARIABLES
    gsp_pc,               \* "call", "pipeline" while generate_all_bns_parameters runs, "done"
    gsp_sample,           \* its sample argument
    gsp_parameters,       \* its parameters argument: the requested keys
    gsp_result            \* what the call did: [status, value]

specificVars == <<gsp_pc, gsp_sample, gsp_parameters, gsp_result>>

\* ------------------------------------------------------------ the conversion functions
VARIABLES
    call_pc,              \* "call" before the function is applied, "done" after
    args,                 \* the arguments of the call
    result                \* what the call returned or raised

callVars == <<call_pc, args, result>>

\* what the steps of the reconstruction engine leave alone
nonRecon == <<massVars, orchVars, specificVars, callVars>>

reconVars == <<pc, samples, kind, nmarg, has_outdir, use_cache, clean, npool, block,
               cached_samples_dict, disk, ii, next_task, running, lik_parameters, arrived,
               column, calls, loaded, prev>>

RowValues == {"a", "b"}
Kinds == {"DataFrame", "dict", "other"}

Min(a, b) == IF a < b THEN a ELSE b

Tables == UNION {[1..n -> RowValues] : n \in 0..MaxRows}

NoFile == [kind |-> "absent", samples |-> <<>>, blocks |-> <<>>]
EmptyFile == [kind |-> "empty", samples |-> <<>>, blocks |-> <<>>]
NoPrev == [pinned |-> FALSE, samples |-> <<>>, kind |-> "DataFrame", nmarg |-> 1,
           killed |-> FALSE, reused |-> FALSE,
           calls |-> {}, ii |-> 0, caching |-> FALSE]
NoColumn == [set |-> FALSE, rows |-> <<>>]
NoParameters == [r \in {} |-> ""]

\* fill_sample: the draw for one row, conditioned on that row's parameters
fill_sample(row) == [from |-> row]

\* dict(_samples=samples): a cache holding no block
FreshDict(tbl) == [samples |-> tbl, blocks |-> <<>>]

\* ii in cached_samples_dict
InDictByBlockNumber(d, key) == \E i \in 1..Len(d.blocks) : d.blocks[i].key = key \div block
InDict(d, key) == \E i \in 1..Len(d.blocks) : d.blocks[i].key = key

\* the keys of a cache other than "_samples"
BlockKeys(d) == {d.blocks[i].key : i \in 1..Len(d.blocks)}

\* the condition under which the cache file is opened
CacheIsRead == use_cache /\ has_outdir /\ disk.kind # "absent" /\ ~clean

\* the cache a call starts from
LoadedDictByLength(tbl) ==
    IF CacheIsRead
    THEN IF disk.kind = "file" /\ Len(disk.samples) = Len(tbl)
         THEN [samples |-> disk.samples, blocks |-> disk.blocks]
         ELSE FreshDict(tbl)
    ELSE FreshDict(tbl)
LoadedDict(tbl) ==
    IF CacheIsRead
    THEN IF disk.kind = "file" /\ disk.samples = tbl
         THEN [samples |-> disk.samples, blocks |-> disk.blocks]
         ELSE FreshDict(tbl)
    ELSE FreshDict(tbl)

BlockRowsInclusive(i) == i .. Min(i + block, Len(samples) - 1)
\* fill_args[ii: ii + block], as row numbers
BlockRows(i) == i .. (Min(i + block, Len(samples)) - 1)

\* pool.map / the list comprehension: results in the order of the arguments
PoolMapUnordered(arr, i) == [j \in 1..Len(arr) |-> arr[j][2]]
PoolMap(arr, i) ==
    [j \in 1..Len(arr) |->
        (CHOOSE e \in {arr[x] : x \in 1..Len(arr)} : e[1] = i + j - 1)[2]]

\* np.concatenate over the cache's blocks in the dict's insertion order
RECURSIVE Concatenate(_)
Concatenate(blocks) ==
    IF blocks = <<>> THEN <<>>
    ELSE Head(blocks).rows \o Concatenate(Tail(blocks))

\* safe_file_dump(cached_samples_dict, cache_filename, "pickle")
Pickled(d) == [kind |-> "file", samples |-> d.samples, blocks |-> d.blocks]

\* if use_cache: safe_file_dump(...), inside the block loop
DumpedFileNever == disk
DumpedFile == IF use_cache THEN Pickled(cached_samples_dict) ELSE disk

ReconLocals ==
    /\ pc = "idle"
    /\ samples = <<>>
    /\ kind = "DataFrame"
    /\ nmarg = 1
    /\ has_outdir = TRUE
    /\ use_cache = TRUE
    /\ clean = FALSE
    /\ npool = 1
    /\ cached_samples_dict = FreshDict(<<>>)
    /\ ii = 0
    /\ next_task = 0
    /\ running = {}
    /\ lik_parameters = NoParameters
    /\ arrived = <<>>
    /\ column = NoColumn
    /\ calls = {}
    /\ loaded = <<>>

\* before the first call: any block size, no cache file or an empty one
ReconInit ==
    /\ ReconLocals
    /\ block \in 1..MaxBlock
    /\ disk \in {NoFile, EmptyFile}

\* no reconstruction call is made
ReconIdle ==
    /\ ReconLocals
    /\ block = 1
    /\ disk = NoFile
    /\ prev = NoPrev

\* every variable of a call, as it is when no call is active
NoCall ==
    /\ pc' = "idle"
    /\ samples' = <<>>
    /\ kind' = "DataFrame"
    /\ nmarg' = 1
    /\ has_outdir' = TRUE
    /\ use_cache' = TRUE
    /\ clean' = FALSE
    /\ npool' = 1
    /\ cached_samples_dict' = FreshDict(<<>>)
    /\ ii' = 0
    /\ next_task' = 0
    /\ running' = {}
    /\ lik_parameters' = NoParameters
    /\ arrived' = <<>>
    /\ column' = NoColumn
    /\ calls' = {}
    /\ loaded' = <<>>
    /\ UNCHANGED <<nonRecon, block, disk>>

\* the locals of a call as they are on entry
Entered ==
    /\ pc' = "entry"
    /\ cached_samples_dict' = FreshDict(<<>>)
    /\ ii' = 0
    /\ next_task' = 0
    /\ running' = {}
    /\ lik_parameters' = NoParameters
    /\ arrived' = <<>>
    /\ column' = NoColumn
    /\ calls' = {}
    /\ loaded' = <<>>
    /\ UNCHANGED <<nonRecon, block, disk>>

\* A call of generate_posterior_samples_from_marginalized_likelihood begins.
Call ==
    /\ pc = "idle"
    /\ ~prev.pinned
    /\ \E tbl \in Tables, k \in Kinds, m \in 0..1, o \in BOOLEAN,
          u \in BOOLEAN, c \in BOOLEAN, p \in 1..MaxPool :
        /\ samples' = tbl
        /\ kind' = k
        /\ nmarg' = m
        /\ has_outdir' = o
        /\ use_cache' = u
        /\ clean' = c
        /\ npool' = p
    /\ prev' = prev
    /\ Entered

\* The call is made again on the same table, after it returned or was killed.
Recall ==
    /\ pc = "idle"
    /\ prev.pinned
    /\ \E o \in BOOLEAN, u \in BOOLEAN, c \in BOOLEAN, p \in 1..MaxPool :
        /\ has_outdir' = o
        /\ use_cache' = u
        /\ clean' = c
        /\ npool' = p
        /\ prev' = [prev EXCEPT !.reused = o /\ u /\ ~c]
    /\ samples' = prev.samples
    /\ kind' = prev.kind
    /\ nmarg' = prev.nmarg
    /\ Entered

PassThroughUnchecked ==
    /\ pc = "entry"
    /\ nmarg = 0 \/ kind \in {"dict", "other"}
    /\ pc' = "returned"
    /\ UNCHANGED <<nonRecon, samples, kind, nmarg, has_outdir, use_cache, clean, npool, block,
                   cached_samples_dict, disk, ii, next_task, running, lik_parameters, arrived,
                   column, calls, loaded, prev>>

\* lines 1610-1618: nothing to reconstruct, a single point, or an unsupported container
PassThrough ==
    /\ pc = "entry"
    /\ \/ /\ nmarg = 0
          /\ pc' = "returned"
       \/ /\ nmarg > 0 /\ kind = "dict"
          /\ pc' = "returned"
       \/ /\ nmarg > 0 /\ kind = "other"
          /\ pc' = "raised"
    /\ UNCHANGED <<nonRecon, samples, kind, nmarg, has_outdir, use_cache, clean, npool, block,
                   cached_samples_dict, disk, ii, next_task, running, lik_parameters, arrived,
                   column, calls, loaded, prev>>

\* lines 1623-1674: the cache is loaded or initialised, the pool is set up
LoadCacheEager ==
    /\ pc = "entry"
    /\ kind = "DataFrame"
    /\ use_cache' = (use_cache /\ has_outdir)
    /\ cached_samples_dict' = LoadedDict(samples)
    /\ loaded' = LoadedDict(samples).blocks
    /\ ii' = 0
    /\ pc' = "loop"
    /\ UNCHANGED <<nonRecon, samples, kind, nmarg, has_outdir, clean, npool, block, disk,
                   next_task, running, lik_parameters, arrived, column, calls, prev>>

LoadCache ==
    /\ pc = "entry"
    /\ nmarg > 0 /\ kind = "DataFrame"
    /\ use_cache' = (use_cache /\ has_outdir)
    /\ cached_samples_dict' = LoadedDict(samples)
    /\ loaded' = LoadedDict(samples).blocks
    /\ ii' = 0
    /\ pc' = "loop"
    /\ UNCHANGED <<nonRecon, samples, kind, nmarg, has_outdir, clean, npool, block, disk,
                   next_task, running, lik_parameters, arrived, column, calls, prev>>

\* lines 1676-1680: a cached block is skipped
SkipBlock ==
    /\ pc = "loop"
    /\ ii < Len(samples)
    /\ InDict(cached_samples_dict, ii)
    /\ ii' = ii + block
    /\ UNCHANGED <<nonRecon, pc, samples, kind, nmarg, has_outdir, use_cache, clean, npool,
                   block, cached_samples_dict, disk, next_task, running, lik_parameters, arrived,
                   column, calls, loaded, prev>>

\* lines 1682-1685: the rows of the block are handed out
BeginBlock ==
    /\ pc = "loop"
    /\ ii < Len(samples)
    /\ ~InDict(cached_samples_dict, ii)
    /\ next_task' = ii
    /\ running' = {}
    /\ lik_parameters' = NoParameters
    /\ arrived' = <<>>
    /\ pc' = "fill"
    /\ UNCHANGED <<nonRecon, samples, kind, nmarg, has_outdir, use_cache, clean, npool, block,
                   cached_samples_dict, disk, ii, column, calls, loaded, prev>>

\* lines 1658-1663 and 1733-1735: likelihood.parameters.update(sample) in a worker.
\* Each process of the pool holds the likelihood its initializer was given, so the
\* update reaches the state of the worker computing row r and no other.
UpdatedInEveryWorker(lp, r, row) == [x \in (DOMAIN lp) \cup {r} |-> row]
UpdatedInWorker(lp, r, row) ==
    [x \in (DOMAIN lp) \cup {r} |-> IF x = r THEN row ELSE lp[x]]

\* a free worker (the calling thread when npool = 1) takes the next row of the block
\* and sets its likelihood's parameters to the row
TaskStart ==
    /\ pc = "fill"
    /\ next_task \in BlockRows(ii)
    /\ Cardinality(running) < npool
    /\ running' = running \cup {next_task}
    /\ lik_parameters' = UpdatedInWorker(lik_parameters, next_task, samples[next_task + 1])
    /\ calls' = calls \cup {next_task}
    /\ next_task' = next_task + 1
    /\ UNCHANGED <<nonRecon, pc, samples, kind, nmarg, has_outdir, use_cache, clean, npool,
                   block, cached_samples_dict, disk, ii, arrived, column, loaded, prev>>

\* fill_sample returns for one row: the draw made from its likelihood's parameters
TaskComplete ==
    /\ pc = "fill"
    /\ \E r \in running :
        /\ arrived' = Append(arrived, <<r, fill_sample(lik_parameters[r])>>)
        /\ running' = running \ {r}
        /\ lik_parameters' = [x \in running \ {r} |-> lik_parameters[x]]
    /\ UNCHANGED <<nonRecon, pc, samples, kind, nmarg, has_outdir, use_cache, clean, npool,
                   block, cached_samples_dict, disk, ii, next_task, column, calls,
                   loaded, prev>>

\* the likelihood raises MarginalizedLikelihoodReconstructionError for a row, and
\* the error leaves the call
TaskFails ==
    /\ pc = "fill"
    /\ running # {}
    /\ likelihood.present => likelihood.reconstruction_fails
    /\ pc' = "failed"
    /\ UNCHANGED <<nonRecon, samples, kind, nmarg, has_outdir, use_cache, clean, npool,
                   block, cached_samples_dict, disk, ii, next_task, running,
                   lik_parameters, arrived, column, calls, loaded, prev>>

\* line 1687: cached_samples_dict[ii] = subset_samples
StoreBlock ==
    /\ pc = "fill"
    /\ running = {}
    /\ next_task \notin BlockRows(ii)
    /\ cached_samples_dict' =
         [cached_samples_dict EXCEPT
            !.blocks = Append(@, [key |-> ii, rows |-> PoolMap(arrived, ii)])]
    /\ pc' = "dump"
    /\ UNCHANGED <<nonRecon, samples, kind, nmarg, has_outdir, use_cache, clean, npool, block,
                   disk, ii, next_task, running, lik_parameters, arrived, column, calls, loaded, prev>>

\* lines 1689-1690: the cache is written to the cache file
DumpCache ==
    /\ pc = "dump"
    /\ disk' = DumpedFile
    /\ pc' = "advance"
    /\ UNCHANGED <<nonRecon, samples, kind, nmarg, has_outdir, use_cache, clean, npool, block,
                   cached_samples_dict, ii, next_task, running, lik_parameters, arrived, column,
                   calls, loaded, prev>>

\* lines 1692-1693: ii += block
Advance ==
    /\ pc = "advance"
    /\ ii' = ii + block
    /\ pc' = "loop"
    /\ UNCHANGED <<nonRecon, samples, kind, nmarg, has_outdir, use_cache, clean, npool, block,
                   cached_samples_dict, disk, next_task, running, lik_parameters, arrived, column,
                   calls, loaded, prev>>

\* lines 1694-1707: the blocks are concatenated and assigned to the marginalized columns
Assign ==
    /\ pc = "loop"
    /\ ii >= Len(samples)
    /\ LET new_samples == Concatenate(cached_samples_dict.blocks)
       IN  IF cached_samples_dict.blocks = <<>> \/ Len(new_samples) # Len(samples)
           THEN /\ pc' = "raised"
                /\ column' = column
           ELSE /\ pc' = "returned"
                /\ column' = [set |-> TRUE, rows |-> new_samples]
    /\ UNCHANGED <<nonRecon, samples, kind, nmarg, has_outdir, use_cache, clean, npool, block,
                   cached_samples_dict, disk, ii, next_task, running, lik_parameters, arrived,
                   calls, loaded, prev>>

\* the call has returned or raised; its locals are gone
Finish ==
    /\ pc \in {"returned", "raised", "failed"}
    /\ prev' = [prev EXCEPT !.killed = FALSE, !.reused = FALSE, !.calls = {},
                            !.ii = 0, !.caching = FALSE]
    /\ NoCall

\* the process is killed during the call: only the cache file survives
Kill ==
    /\ pc \in {"entry", "loop", "fill", "dump", "advance"}
    /\ prev' = IF prev.pinned
               THEN [prev EXCEPT !.killed = TRUE, !.reused = FALSE, !.calls = calls,
                                 !.ii = ii, !.caching = (use_cache /\ has_outdir)]
               ELSE prev
    /\ NoCall

\* ------------------------------------------------------------ the mass completion policy
\* Values are terms in postfix notation: an input value is <<name>>, a derived value
\* is its arguments followed by the name of the function applied to them.
F1(f, a) == a \o <<f>>
F2(f, a, b) == a \o b \o <<f>>

Has(d, k) == k \in DOMAIN d
\* d[k] = v on a dict
Put(d, k, v) == [x \in (DOMAIN d) \cup {k} |-> IF x = k THEN v ELSE d[x]]
EmptyDict == [x \in {} |-> <<>>]

Returned(d) == [status |-> "returned", value |-> d, what |-> ""]
KeyError(what) == [status |-> "KeyError", value |-> EmptyDict, what |-> what]

\* lines 1044-1053: the key family selected by source
mass_1_key(src) == IF src THEN "mass_1_source" ELSE "mass_1"
mass_2_key(src) == IF src THEN "mass_2_source" ELSE "mass_2"
total_mass_key_unsuffixed(src) == "total_mass"
total_mass_key(src) == IF src THEN "total_mass_source" ELSE "total_mass"
chirp_mass_key(src) == IF src THEN "chirp_mass_source" ELSE "chirp_mass"

\* lines 1037-1041
check_and_return_quietly(ra, smp) ==
    IF ra THEN KeyError("Insufficient mass parameters in input dictionary")
    ELSE Returned(smp)

\* lines 1080-1084: mass_2 from mass_ratio and mass_1
SecondaryFromRatio(out, src) ==
    IF ~Has(out, "mass_ratio") THEN KeyError("mass_ratio")
    ELSE Returned(Put(out, mass_2_key(src),
                      F2("mul", out["mass_ratio"], out[mass_1_key(src)])))

\* lines 1109-1113: mass_1 from 1 / mass_ratio and mass_2
PrimaryFromRatio(out, src) ==
    IF ~Has(out, "mass_ratio") THEN KeyError("mass_ratio")
    ELSE Returned(Put(out, mass_1_key(src),
                      F2("mul", F1("reciprocal", out["mass_ratio"]), out[mass_2_key(src)])))

\* lines 1055-1084: mass_1 is in the sample
Mass1BranchRatioFirst(smp, ra, src) ==
    LET out == smp
    IN  IF Has(smp, mass_2_key(src)) THEN Returned(out)
        ELSE IF Has(smp, "mass_ratio") THEN SecondaryFromRatio(out, src)
        ELSE IF Has(smp, total_mass_key(src))
        THEN Returned(Put(out, mass_2_key(src),
                          F2("sub", out[total_mass_key(src)], out[mass_1_key(src)])))
        ELSE IF Has(smp, "symmetric_mass_ratio")
        THEN SecondaryFromRatio(
                 Put(out, "mass_ratio", F1("symmetric_mass_ratio_to_mass_ratio",
                                           out["symmetric_mass_ratio"])), src)
        ELSE IF Has(smp, chirp_mass_key(src))
        THEN SecondaryFromRatio(
                 Put(out, "mass_ratio", F2("mass_1_and_chirp_mass_to_mass_ratio",
                                           out[mass_1_key(src)], out[chirp_mass_key(src)])), src)
        ELSE check_and_return_quietly(ra, smp)
Mass1Branch(smp, ra, src) ==
    LET out == smp
    IN  IF Has(smp, mass_2_key(src)) THEN Returned(out)
        ELSE IF Has(smp, total_mass_key(src))
        THEN Returned(Put(out, mass_2_key(src),
                          F2("sub", out[total_mass_key(src)], out[mass_1_key(src)])))
        ELSE IF Has(smp, "mass_ratio") THEN SecondaryFromRatio(out, src)
        ELSE IF Has(smp, "symmetric_mass_ratio")
        THEN SecondaryFromRatio(
                 Put(out, "mass_ratio", F1("symmetric_mass_ratio_to_mass_ratio",
                                           out["symmetric_mass_ratio"])), src)
        ELSE IF Has(smp, chirp_mass_key(src))
        THEN SecondaryFromRatio(
                 Put(out, "mass_ratio", F2("mass_1_and_chirp_mass_to_mass_ratio",
                                           out[mass_1_key(src)], out[chirp_mass_key(src)])), src)
        ELSE check_and_return_quietly(ra, smp)

\* lines 1086-1113: mass_2 is in the sample and mass_1 is not.  The result of
\* check_and_return_quietly at line 1107 is not returned: unless it raises, the
\* function goes on to read output_sample["mass_ratio"].
Mass2Branch(smp, ra, src) ==
    LET out == smp
    IN  IF Has(smp, total_mass_key(src))
        THEN Returned(Put(out, mass_1_key(src),
                          F2("sub", out[total_mass_key(src)], out[mass_2_key(src)])))
        ELSE IF Has(smp, "mass_ratio") THEN PrimaryFromRatio(out, src)
        ELSE IF Has(smp, "symmetric_mass_ratio")
        THEN PrimaryFromRatio(
                 Put(out, "mass_ratio", F1("symmetric_mass_ratio_to_mass_ratio",
                                           out["symmetric_mass_ratio"])), src)
        ELSE IF Has(smp, chirp_mass_key(src))
        THEN PrimaryFromRatio(
                 Put(out, "mass_ratio", F2("mass_2_and_chirp_mass_to_mass_ratio",
                                           out[mass_2_key(src)], out[chirp_mass_key(src)])), src)
        ELSE IF check_and_return_quietly(ra, smp).status # "returned"
        THEN check_and_return_quietly(ra, smp)
        ELSE PrimaryFromRatio(out, src)

\* lines 1154-1166: both components from total_mass and mass_ratio
ComponentsFromTotal(smp, out, ra, src) ==
    IF ~Has(out, total_mass_key(src)) \/ ~Has(out, "mass_ratio")
    THEN check_and_return_quietly(ra, smp)
    ELSE Returned(
           Put(Put(out, mass_1_key(src),
                   F2("total_mass_and_mass_ratio_to_mass_1",
                      out[total_mass_key(src)], out["mass_ratio"])),
               mass_2_key(src),
               F2("total_mass_and_mass_ratio_to_mass_2",
                  out[total_mass_key(src)], out["mass_ratio"])))

\* lines 1137-1152: chirp_mass is in the sample, total_mass is not
ChirpMassBranch(smp, ra, src) ==
    LET withRatio(out) ==
            ComponentsFromTotal(smp,
                Put(out, total_mass_key(src),
                    F2("chirp_mass_and_mass_ratio_to_total_mass",
                       out[chirp_mass_key(src)], out["mass_ratio"])), ra, src)
    IN  IF Has(smp, "mass_ratio") THEN withRatio(smp)
        ELSE IF Has(smp, "symmetric_mass_ratio")
        THEN withRatio(Put(smp, "mass_ratio",
                           F1("symmetric_mass_ratio_to_mass_ratio",
                              smp["symmetric_mass_ratio"])))
        ELSE check_and_return_quietly(ra, smp)

\* lines 1115-1166: neither mass_1 nor mass_2 is in the sample
NeitherBranchNeedsRatio(smp, ra, src) ==
    LET out == smp
    IN  IF Has(smp, total_mass_key(src))
        THEN IF Has(smp, "mass_ratio") THEN ComponentsFromTotal(smp, out, ra, src)
             ELSE IF Has(smp, "symmetric_mass_ratio")
             THEN ComponentsFromTotal(smp,
                      Put(out, "mass_ratio", F1("symmetric_mass_ratio_to_mass_ratio",
                                                out["symmetric_mass_ratio"])), ra, src)
             ELSE check_and_return_quietly(ra, smp)
        ELSE IF Has(smp, chirp_mass_key(src)) THEN ChirpMassBranch(smp, ra, src)
        ELSE ComponentsFromTotal(smp, out, ra, src)
NeitherBranch(smp, ra, src) ==
    LET out == smp
    IN  IF Has(smp, total_mass_key(src))
        THEN IF Has(smp, "mass_ratio") THEN ComponentsFromTotal(smp, out, ra, src)
             ELSE IF Has(smp, "symmetric_mass_ratio")
             THEN ComponentsFromTotal(smp,
                      Put(out, "mass_ratio", F1("symmetric_mass_ratio_to_mass_ratio",
                                                out["symmetric_mass_ratio"])), ra, src)
             ELSE IF Has(smp, chirp_mass_key(src))
             THEN LET eta == F2("chirp_mass_and_total_mass_to_symmetric_mass_ratio",
                                out[chirp_mass_key(src)], out[total_mass_key(src)])
                  IN  ComponentsFromTotal(smp,
                          Put(Put(out, "symmetric_mass_ratio", eta), "mass_ratio",
                              F1("symmetric_mass_ratio_to_mass_ratio", eta)), ra, src)
             ELSE check_and_return_quietly(ra, smp)
        ELSE IF Has(smp, chirp_mass_key(src)) THEN ChirpMassBranch(smp, ra, src)
        ELSE ComponentsFromTotal(smp, out, ra, src)

\* lines 1007-1166
generate_component_masses(smp, ra, src) ==
    IF Has(smp, mass_1_key(src)) THEN Mass1Branch(smp, ra, src)
    ELSE IF Has(smp, mass_2_key(src)) THEN Mass2Branch(smp, ra, src)
    ELSE NeitherBranch(smp, ra, src)

MassKeys == {"mass_1", "mass_2", "total_mass", "chirp_mass",
             "mass_1_source", "mass_2_source", "total_mass_source", "chirp_mass_source",
             "mass_ratio", "symmetric_mass_ratio"}

\* a sample holding the keys ks, each with an input value of its own
InputSample(ks) == [k \in ks |-> <<k>>]

MassInit ==
    /\ gcm_pc = "call"
    /\ gmp_pc = "call"
    /\ sample \in {InputSample(ks) : ks \in SUBSET MassKeys}
    /\ require_add \in BOOLEAN
    /\ source \in BOOLEAN
    /\ gcm_result = Returned(EmptyDict)
    /\ gmp_result = Returned(EmptyDict)

\* no call of generate_component_masses is made
MassIdle ==
    /\ gcm_pc = "idle"
    /\ gmp_pc = "idle"
    /\ sample = EmptyDict
    /\ require_add = FALSE
    /\ source = FALSE
    /\ gcm_result = Returned(EmptyDict)
    /\ gmp_result = Returned(EmptyDict)

\* generate_component_masses(sample, require_add, source) is applied
GenerateComponentMasses ==
    /\ gcm_pc = "call"
    /\ gcm_result' = generate_component_masses(sample, require_add, source)
    /\ gcm_pc' = "done"
    /\ UNCHANGED <<sample, require_add, source, gmp_pc, gmp_result, reconVars, orchVars, specificVars, callVars>>

\* ------------------------------------------------------------ the completion orchestrator
\* d.update(e) on dicts
Update(d, e) ==
    [k \in (DOMAIN d) \cup (DOMAIN e) |-> IF k \in DOMAIN e THEN e[k] ELSE d[k]]

ValueError(what) == [status |-> "ValueError", value |-> EmptyDict, what |-> what]

\* the first key of ks that d lacks raises KeyError, else d is returned
RECURSIVE Reading(_, _)
Reading(d, ks) ==
    IF ks = <<>> THEN Returned(d)
    ELSE IF ~Has(d, Head(ks)) THEN KeyError(Head(ks))
    ELSE Reading(d, Tail(ks))

\* key[-7:] == '_source' and key[:-7], on the keys of the model
SourceKeys == {"mass_1_source", "mass_2_source", "total_mass_source", "chirp_mass_source"}
StripSource(k) ==
    CASE k = "mass_1_source" -> "mass_1"
      [] k = "mass_2_source" -> "mass_2"
      [] k = "total_mass_source" -> "total_mass"
      [] k = "chirp_mass_source" -> "chirp_mass"
AddSource(k) ==
    CASE k = "mass_1" -> "mass_1_source"
      [] k = "mass_2" -> "mass_2_source"
      [] k = "total_mass" -> "total_mass_source"
      [] k = "chirp_mass" -> "chirp_mass_source"

\* lines 195-202: luminosity_distance from redshift or comoving_distance
WithLuminosityDistance(parameters) ==
    IF Has(parameters, "luminosity_distance") THEN parameters
    ELSE IF Has(parameters, "redshift")
    THEN Put(parameters, "luminosity_distance",
             F1("redshift_to_luminosity_distance", parameters["redshift"]))
    ELSE IF Has(parameters, "comoving_distance")
    THEN Put(parameters, "luminosity_distance",
             F1("comoving_distance_to_luminosity_distance", parameters["comoving_distance"]))
    ELSE parameters

\* lines 204-211: detector-frame values of the _source keys of the input
WithDetectorFrame(parameters, converted) ==
    LET sourced == (DOMAIN parameters) \cap SourceKeys
    IN  IF sourced = {} THEN Returned(converted)
        ELSE IF ~Has(converted, "redshift") /\ ~Has(parameters, "luminosity_distance")
        THEN KeyError("luminosity_distance")
        ELSE LET withz ==
                     IF Has(converted, "redshift") THEN converted
                     ELSE Put(converted, "redshift",
                              F1("luminosity_distance_to_redshift",
                                 parameters["luminosity_distance"]))
             IN  Returned(
                   [k \in (DOMAIN withz) \cup {StripSource(x) : x \in sourced} |->
                       IF k \in {StripSource(x) : x \in sourced}
                       THEN F2("times_one_plus", withz[AddSource(k)], withz["redshift"])
                       ELSE withz[k]])

\* lines 216-245: spin magnitude and tilt cosine from chi_idx
chi_key(idx) == IF idx = 1 THEN "chi_1" ELSE "chi_2"
chi_in_plane_key(idx) == IF idx = 1 THEN "chi_1_in_plane" ELSE "chi_2_in_plane"
a_key(idx) == IF idx = 1 THEN "a_1" ELSE "a_2"
cos_tilt_key(idx) == IF idx = 1 THEN "cos_tilt_1" ELSE "cos_tilt_2"
WithSpinMagnitude(original_keys, converted, idx) ==
    IF chi_key(idx) \notin original_keys THEN converted
    ELSE IF chi_in_plane_key(idx) \in original_keys
    THEN LET a == F2("hypot", converted[chi_key(idx)], converted[chi_in_plane_key(idx)])
         IN  Put(Put(converted, a_key(idx), a),
                 cos_tilt_key(idx), F2("div", converted[chi_key(idx)], a))
    ELSE IF a_key(idx) \notin original_keys
    THEN Put(Put(converted, a_key(idx), F1("abs", converted[chi_key(idx)])),
             cos_tilt_key(idx), F1("sign", converted[chi_key(idx)]))
    ELSE Put(converted, cos_tilt_key(idx),
             F2("div_or_one", converted[chi_key(idx)], converted[a_key(idx)]))

\* lines 247-249
WithDefault(converted, k) == IF Has(converted, k) THEN converted ELSE Put(converted, k, <<"0.0">>)

\* lines 251-254
WithAngle(converted, cos_angle, angle) ==
    IF Has(converted, cos_angle)
    THEN Put(converted, angle, F1("arccos", converted[cos_angle]))
    ELSE converted

\* lines 256-263
WithPhase(original_keys, converted) ==
    IF "delta_phase" \notin original_keys THEN Returned(converted)
    ELSE IF Reading(converted, <<"delta_phase", "theta_jn", "psi">>).status # "returned"
    THEN Reading(converted, <<"delta_phase", "theta_jn", "psi">>)
    ELSE Returned(Put(converted, "phase",
                      <<"delta_phase_to_phase">> \o converted["delta_phase"]
                          \o converted["theta_jn"] \o converted["psi"]))

\* lines 193-268, without added_keys
convert_to_lal_binary_black_hole_parameters(parameters) ==
    LET original_keys == DOMAIN parameters
        framed == WithDetectorFrame(parameters, WithLuminosityDistance(parameters))
    IN  IF framed.status # "returned" THEN framed
        ELSE LET massed == generate_component_masses(framed.value, FALSE, FALSE)
             IN  IF massed.status # "returned" THEN massed
                 ELSE LET spun == WithSpinMagnitude(original_keys,
                                      WithSpinMagnitude(original_keys, massed.value, 1), 2)
                          phied == WithDefault(WithDefault(spun, "phi_jl"), "phi_12")
                          angled == WithAngle(WithAngle(WithAngle(phied,
                                        "cos_tilt_1", "tilt_1"),
                                        "cos_tilt_2", "tilt_2"),
                                        "cos_theta_jn", "theta_jn")
                      IN  WithPhase(original_keys, angled)

TidalKeys == {"lambda_1", "lambda_2", "lambda_tilde", "delta_lambda_tilde",
              "eos_spectral_gamma_0"}
EosOutcomes == {"warning_flag", "unphysical", "within_maximum_mass", "above_maximum_mass"}

\* lines 309-354: the tidal deformabilities; eos is what the equation-of-state
\* collaborator answers.  No value of the model is None, so line 325 never holds.
WithLambdas(parameters, converted, eos) ==
    LET tilded ==
            IF Has(converted, "delta_lambda_tilde")
            THEN IF Reading(converted, <<"lambda_tilde", "mass_1", "mass_2">>).status
                        # "returned"
                 THEN Reading(converted, <<"lambda_tilde", "mass_1", "mass_2">>)
                 ELSE LET t == converted["lambda_tilde"] \o parameters["delta_lambda_tilde"]
                                   \o converted["mass_1"] \o converted["mass_2"]
                      IN  Returned(Put(Put(converted,
                              "lambda_1", t \o <<"tilde_pair_to_lambda_1">>),
                              "lambda_2", t \o <<"tilde_pair_to_lambda_2">>))
            ELSE IF Has(converted, "lambda_tilde")
            THEN IF Reading(converted, <<"mass_1", "mass_2">>).status # "returned"
                 THEN Reading(converted, <<"mass_1", "mass_2">>)
                 ELSE LET t == converted["lambda_tilde"] \o converted["mass_1"]
                                   \o converted["mass_2"]
                      IN  Returned(Put(Put(converted,
                              "lambda_1", t \o <<"lambda_tilde_to_lambda_1">>),
                              "lambda_2", t \o <<"lambda_tilde_to_lambda_2">>))
            ELSE Returned(converted)
    IN  IF tilded.status # "returned" THEN tilded
        ELSE LET c == tilded.value
             IN  IF ~Has(c, "lambda_2") /\ Has(c, "lambda_1")
                 THEN IF Reading(c, <<"mass_1", "mass_2">>).status # "returned"
                      THEN Reading(c, <<"mass_1", "mass_2">>)
                      ELSE Returned(Put(c, "lambda_2",
                               c["lambda_1"] \o c["mass_1"] \o c["mass_2"]
                                   \o <<"lambda_1_to_lambda_2">>))
                 ELSE IF Has(c, "eos_spectral_gamma_0")
                 THEN IF eos \in {"warning_flag", "unphysical"}
                      THEN Returned(Put(Put(Put(c, "lambda_1", <<"0.0">>),
                                        "lambda_2", <<"0.0">>), "eos_check", <<"False">>))
                      ELSE IF Reading(c, <<"mass_1", "mass_2">>).status # "returned"
                      THEN Reading(c, <<"mass_1", "mass_2">>)
                      ELSE IF eos = "within_maximum_mass"
                      THEN Returned(Put(Put(c,
                               "lambda_1", F1("lambda_from_mass", c["mass_1"])),
                               "lambda_2", F1("lambda_from_mass", c["mass_2"])))
                      ELSE Returned(Put(Put(Put(c, "lambda_1", <<"0.0">>),
                                        "lambda_2", <<"0.0">>), "eos_check", <<"False">>))
                 ELSE Returned(c)

\* lines 297-359, without added_keys
convert_to_lal_binary_neutron_star_parameters(parameters, eos) ==
    LET bbh == convert_to_lal_binary_black_hole_parameters(parameters)
    IN  IF bbh.status # "returned" THEN bbh
        ELSE IF (DOMAIN bbh.value) \cap TidalKeys = {}
        THEN Returned(Put(Put(bbh.value, "lambda_1", <<"0">>), "lambda_2", <<"0">>))
        ELSE WithLambdas(parameters, bbh.value, eos)

WithFromComponentsRecomputed(r, key, f, src) ==
    IF r.status # "returned" THEN r
    ELSE IF Reading(r.value, <<mass_1_key(src), mass_2_key(src)>>).status # "returned"
    THEN Reading(r.value, <<mass_1_key(src), mass_2_key(src)>>)
    ELSE Returned(Put(r.value, key,
                      F2(f, r.value[mass_1_key(src)], r.value[mass_2_key(src)])))

\* one of lines 1209-1228: key from both components unless it is present
WithFromComponents(r, key, f, src) ==
    IF r.status # "returned" \/ Has(r.value, key) THEN r
    ELSE IF Reading(r.value, <<mass_1_key(src), mass_2_key(src)>>).status # "returned"
    THEN Reading(r.value, <<mass_1_key(src), mass_2_key(src)>>)
    ELSE Returned(Put(r.value, key,
                      F2(f, r.value[mass_1_key(src)], r.value[mass_2_key(src)])))

\* lines 1169-1230
generate_mass_parameters(smp, src) ==
    WithFromComponents(
      WithFromComponents(
        WithFromComponents(
          WithFromComponents(generate_component_masses(smp, FALSE, src),
            chirp_mass_key(src), "component_masses_to_chirp_mass", src),
          total_mass_key(src), "component_masses_to_total_mass", src),
        "symmetric_mass_ratio", "component_masses_to_symmetric_mass_ratio", src),
      "mass_ratio", "component_masses_to_mass_ratio", src)

\* generate_mass_parameters(sample, source) is applied
GenerateMassParameters ==
    /\ gmp_pc = "call"
    /\ gmp_result' = generate_mass_parameters(sample, source)
    /\ gmp_pc' = "done"
    /\ UNCHANGED <<sample, require_add, source, gcm_pc, gcm_result, reconVars, orchVars, specificVars, callVars>>

spin_conversion_parameters ==
    {"theta_jn", "phi_jl", "tilt_1", "tilt_2", "phi_12", "a_1", "a_2",
     "mass_1", "mass_2", "reference_frequency", "phase"}
spin_conversion_arguments(d) ==
    d["theta_jn"] \o d["phi_jl"] \o d["tilt_1"] \o d["tilt_2"] \o d["phi_12"] \o d["a_1"]
        \o d["a_2"] \o d["mass_1"] \o d["mass_2"] \o d["reference_frequency"] \o d["phase"]

\* lines 1281-1334
generate_component_spins_zero_filled(smp) ==
    IF spin_conversion_parameters \subseteq DOMAIN smp
    THEN LET t == spin_conversion_arguments(smp)
             spins == [k \in {"iota", "spin_1x", "spin_1y", "spin_1z",
                              "spin_2x", "spin_2y", "spin_2z"} |->
                          t \o <<"bilby_to_lalsimulation_spins", k>>]
             withSpins == Update(smp, spins)
         IN  Put(Put(withSpins,
                 "phi_1", F2("azimuth", withSpins["spin_1y"], withSpins["spin_1x"])),
                 "phi_2", F2("azimuth", withSpins["spin_2y"], withSpins["spin_2x"]))
    ELSE IF Has(smp, "chi_1") /\ Has(smp, "chi_2")
    THEN Update(smp, [k \in {"spin_1x", "spin_1y", "spin_1z",
                             "spin_2x", "spin_2y", "spin_2z"} |->
                         IF k = "spin_1z" THEN smp["chi_1"]
                         ELSE IF k = "spin_2z" THEN smp["chi_2"] ELSE <<"0">>])
    ELSE Update(smp, [k \in {"spin_1x", "spin_1y", "spin_1z",
                             "spin_2x", "spin_2y", "spin_2z"} |-> <<"0">>])

generate_component_spins(smp) ==
    IF spin_conversion_parameters \subseteq DOMAIN smp
    THEN LET t == spin_conversion_arguments(smp)
             spins == [k \in {"iota", "spin_1x", "spin_1y", "spin_1z",
                              "spin_2x", "spin_2y", "spin_2z"} |->
                          t \o <<"bilby_to_lalsimulation_spins", k>>]
             withSpins == Update(smp, spins)
         IN  Put(Put(withSpins,
                 "phi_1", F2("azimuth", withSpins["spin_1y"], withSpins["spin_1x"])),
                 "phi_2", F2("azimuth", withSpins["spin_2y"], withSpins["spin_2x"]))
    ELSE IF Has(smp, "chi_1") /\ Has(smp, "chi_2")
    THEN Update(smp, [k \in {"spin_1x", "spin_1y", "spin_1z",
                             "spin_2x", "spin_2y", "spin_2z"} |->
                         IF k = "spin_1z" THEN smp["chi_1"]
                         ELSE IF k = "spin_2z" THEN smp["chi_2"] ELSE <<"0">>])
    ELSE smp

\* lines 1233-1278
generate_spin_parameters(smp) ==
    LET s == generate_component_spins(smp)
    IN  IF Reading(s, <<"spin_1z", "spin_2z", "mass_ratio", "spin_1x", "spin_1y",
                         "spin_2x", "spin_2y">>).status # "returned"
        THEN Reading(s, <<"spin_1z", "spin_2z", "mass_ratio", "spin_1x", "spin_1y",
                          "spin_2x", "spin_2y">>)
        ELSE LET e == Put(s, "chi_eff",
                          <<"chi_eff">> \o s["spin_1z"] \o s["spin_2z"] \o s["mass_ratio"])
                 p1 == Put(e, "chi_1_in_plane", F2("hypot", e["spin_1x"], e["spin_1y"]))
                 p2 == Put(p1, "chi_2_in_plane", F2("hypot", p1["spin_2x"], p1["spin_2y"]))
                 p == Put(p2, "chi_p",
                          <<"chi_p">> \o p2["chi_1_in_plane"] \o p2["mass_ratio"]
                              \o p2["chi_2_in_plane"])
             IN  IF ~Has(p, "tilt_1") THEN Returned(p)
                 ELSE IF ~Has(p, "tilt_2")
                 THEN Returned(Put(p, "cos_tilt_1", F1("cos", p["tilt_1"])))
                 ELSE Returned(Put(Put(p, "cos_tilt_1", F1("cos", p["tilt_1"])),
                                   "cos_tilt_2", F1("cos", p["tilt_2"])))

\* lines 1367-1391
generate_source_frame_parameters(smp) ==
    IF ~Has(smp, "luminosity_distance") THEN KeyError("luminosity_distance")
    ELSE LET z == Put(smp, "redshift",
                      F1("luminosity_distance_to_redshift", smp["luminosity_distance"]))
             c == Put(z, "comoving_distance",
                      F1("redshift_to_comoving_distance", z["redshift"]))
             framed == (DOMAIN c) \cap {"mass_1", "mass_2", "chirp_mass", "total_mass"}
         IN  Returned(
               [k \in (DOMAIN c) \cup {AddSource(x) : x \in framed} |->
                   IF k \in {AddSource(x) : x \in framed}
                   THEN F2("over_one_plus", c[StripSource(k)], c["redshift"])
                   ELSE c[k]])

\* lines 1337-1364
generate_tidal_parameters(smp) ==
    IF Reading(smp, <<"lambda_1", "lambda_2", "mass_1", "mass_2">>).status # "returned"
    THEN Reading(smp, <<"lambda_1", "lambda_2", "mass_1", "mass_2">>)
    ELSE LET t == smp["lambda_1"] \o smp["lambda_2"] \o smp["mass_1"] \o smp["mass_2"]
         IN  Returned(Put(Put(smp,
                 "lambda_tilde", t \o <<"lambda_1_lambda_2_to_lambda_tilde">>),
                 "delta_lambda_tilde", t \o <<"lambda_1_lambda_2_to_delta_lambda_tilde">>))

\* line 904-906 and 936-938: waveform_defaults of the two entry points
waveform_defaults(entry) ==
    [key \in {"reference_frequency", "waveform_approximant", "minimum_frequency"} |->
        CASE key = "reference_frequency" -> <<"50.0">>
          [] key = "minimum_frequency" -> <<"20.0">>
          [] key = "waveform_approximant" ->
                 IF entry = "bbh" THEN <<"IMRPhenomPv2">> ELSE <<"TaylorF2">>]

NoLikelihood ==
    [present |-> FALSE, waveform_arguments |-> {}, per_detector |-> FALSE,
     marginalized_parameters |-> {}, reconstruction_fails |-> FALSE,
     sky_frame |-> TRUE]

\* the Likelihood collaborators of the model: which waveform arguments are configured,
\* whether compute_per_detector_log_likelihood is callable, the marginalized
\* parameters and whether their reconstruction fails, and whether the reference
\* frame and time reference are the defaults
Likelihoods ==
    {NoLikelihood} \cup
    {[present |-> TRUE, waveform_arguments |-> w, per_detector |-> d,
      marginalized_parameters |-> m, reconstruction_fails |-> f, sky_frame |-> s] :
        w \in {{}, {"reference_frequency"},
               {"reference_frequency", "waveform_approximant", "minimum_frequency"}},
        d \in BOOLEAN, m \in {{}, {"luminosity_distance"}}, f \in BOOLEAN,
        s \in BOOLEAN}

NoPriors == [given |-> FALSE, fixed |-> {}, replaced |-> {}]
PriorDicts ==
    {NoPriors} \cup {[given |-> TRUE, fixed |-> f, replaced |-> {}] : f \in {{}, {"mass_ratio"}}}

Interferometers == {"H1", "L1"}
log_likelihood_key(ifo) == IF ifo = "H1" THEN "H1_log_likelihood" ELSE "L1_log_likelihood"
mf_key(ifo) == IF ifo = "H1" THEN "H1_matched_filter_snr" ELSE "L1_matched_filter_snr"
optimal_key(ifo) == IF ifo = "H1" THEN "H1_optimal_snr" ELSE "L1_optimal_snr"

\* line 819: sample.copy() makes a new object
CopyOfNothing(h, id) == [heap |-> h, ref |-> id]
CopyOf(h, id) == [heap |-> Append(h, h[id]), ref |-> Len(h) + 1]

\* sample[key] = value, samples.update(...): the object itself takes the value
WriteIntoNewObject(h, id, d) == Append(h, d)
WriteInto(h, id, d) == [h EXCEPT ![id] = d]

SeededUnlessPresent(smp, lik, entry) ==
    Update(smp, [key \in (DOMAIN waveform_defaults(entry)) \ (DOMAIN smp) |->
                    IF lik.present /\ key \in lik.waveform_arguments
                    THEN <<"waveform_arguments", key>>
                    ELSE waveform_defaults(entry)[key]])

\* lines 820-828
Seeded(smp, lik, entry) ==
    Update(smp, [key \in DOMAIN waveform_defaults(entry) |->
                    IF lik.present /\ key \in lik.waveform_arguments
                    THEN <<"waveform_arguments", key>>
                    ELSE waveform_defaults(entry)[key]])

\* lines 1000-1003, on the copy of line 999
fill_from_fixed_priors_keeping(smp, prs) ==
    IF prs.given THEN Update(smp, [name \in prs.fixed \ DOMAIN smp |-> <<"peak", name>>])
    ELSE smp

fill_from_fixed_priors(smp, prs) ==
    IF prs.given THEN Update(smp, [name \in prs.fixed |-> <<"peak", name>>]) ELSE smp

\* lines 1561-1563
WithLogLikelihoods(smp) ==
    Update(smp, [key \in {log_likelihood_key(ifo) : ifo \in Interferometers} |->
                    <<"compute_per_detector_log_likelihood", key>>])

\* lines 1702-1707
WithReconstructed(smp, lik) ==
    Update(smp, [key \in lik.marginalized_parameters |->
                    <<"generate_posterior_sample_from_marginalized_likelihood", key>>])

\* lines 1713 and 1726-1727
WithSkyFrame(smp) ==
    Update(smp, [key \in {"ra", "dec", "geocent_time"} |->
                    <<"get_sky_frame_parameters", key>>])

\* lines 1409-1416 and 1442-1450
WithSnrs(smp) ==
    Update(smp, [key \in {mf_key(ifo) : ifo \in Interferometers}
                         \cup {optimal_key(ifo) : ifo \in Interferometers} |->
                    <<"calculate_snrs", key>>])

OrchKeyGroups ==
    {{"mass_1"}, {"mass_2"}, {"chirp_mass"}, {"mass_ratio"}, {"luminosity_distance"},
     {"chi_1", "chi_2"}, {"a_1", "a_2", "tilt_1", "tilt_2", "theta_jn", "phase"},
     {"reference_frequency"}}

OrchInit ==
    /\ o_pc = "seed"
    /\ heap \in {<<InputSample(UNION gs)>> : gs \in SUBSET OrchKeyGroups}
    /\ given = heap[1]
    /\ output_sample = 0
    /\ o_kind \in Kinds
    /\ o_rows \in (IF o_kind = "DataFrame" THEN {0, 1} ELSE {1})
    /\ likelihood \in Likelihoods
    /\ priors \in PriorDicts
    /\ entry_point \in {"bbh", "bns"}
    /\ o_error = ""
    /\ o_log = {}

OrchIdle ==
    /\ o_pc = "idle"
    /\ heap = <<>>
    /\ given = EmptyDict
    /\ output_sample = 0
    /\ o_kind = "dict"
    /\ o_rows = 1
    /\ likelihood = NoLikelihood
    /\ priors = NoPriors
    /\ entry_point = "bbh"
    /\ o_error = ""
    /\ o_log = {}

\* the caller's sample is the first object
Caller == 1

orchConfig == <<given, o_kind, o_rows, likelihood, entry_point>>

\* the stage goes on without touching any object
Goes(to) ==
    /\ o_pc' = to
    /\ UNCHANGED <<heap, output_sample, o_error, o_log>>

\* an exception leaves the orchestrator
Raises(e) ==
    /\ o_pc' = "raised"
    /\ o_error' = e
    /\ UNCHANGED <<heap, output_sample, o_log>>

\* output_sample = func(output_sample): the value func built on its copy
Rebinds(d, to) ==
    LET c == CopyOf(heap, output_sample)
    IN  /\ heap' = WriteInto(c.heap, c.ref, d)
        /\ output_sample' = c.ref
        /\ o_pc' = to
        /\ UNCHANGED <<o_error, o_log>>

\* func(output_sample) with no rebinding: func writes into the object it was passed
Writes(d, to) ==
    /\ heap' = WriteInto(heap, output_sample, d)
    /\ o_pc' = to
    /\ UNCHANGED <<output_sample, o_error, o_log>>

AttemptsAborting(key, r, to) ==
    IF r.status = "returned" THEN Rebinds(r.value, to) ELSE Raises(r.status)

\* lines 879-884 and 943-947: a KeyError is logged and the sample stays as it was
Attempts(key, r, to) ==
    IF r.status = "returned" THEN Rebinds(r.value, to)
    ELSE /\ o_log' = o_log \cup {key}
         /\ o_pc' = to
         /\ UNCHANGED <<heap, output_sample, o_error>>

\* lines 819-828
Seed ==
    /\ o_pc = "seed"
    /\ LET c == CopyOf(heap, Caller)
       IN  /\ heap' = WriteInto(c.heap, c.ref, Seeded(c.heap[c.ref], likelihood, entry_point))
           /\ output_sample' = c.ref
    /\ o_pc' = "priors"
    /\ UNCHANGED <<orchConfig, priors, o_error, o_log, reconVars, massVars, specificVars, callVars>>

\* line 830
FixedPriors ==
    /\ o_pc = "priors"
    /\ Rebinds(fill_from_fixed_priors(heap[output_sample], priors), "base")
    /\ UNCHANGED <<orchConfig, priors, reconVars, massVars, specificVars, callVars>>

\* line 831
BaseConversion ==
    /\ o_pc = "base"
    /\ \E eos \in (IF Has(heap[output_sample], "eos_spectral_gamma_0")
                   THEN EosOutcomes ELSE {"warning_flag"}) :
          LET r == IF entry_point = "bbh"
                   THEN convert_to_lal_binary_black_hole_parameters(heap[output_sample])
                   ELSE convert_to_lal_binary_neutron_star_parameters(
                            heap[output_sample], eos)
          IN  IF r.status = "returned"
              THEN Rebinds(r.value, IF likelihood.present THEN "logl" ELSE "mass")
              ELSE Raises(r.status)
    /\ UNCHANGED <<orchConfig, priors, reconVars, massVars, specificVars, callVars>>

\* lines 832-834 with 1492-1565
PerDetectorLogLikelihoods ==
    /\ o_pc = "logl"
    /\ IF ~likelihood.per_detector \/ o_kind = "dict" THEN Goes("recon")
       ELSE IF o_kind = "other" \/ o_rows = 0 THEN Raises("ValueError")
       ELSE Writes(WithLogLikelihoods(heap[output_sample]), "recon")
    /\ UNCHANGED <<orchConfig, priors, reconVars, massVars, specificVars, callVars>>

\* lines 836-846 with 1610-1618 and 1700-1707
Reconstruction ==
    /\ o_pc = "recon"
    /\ IF likelihood.marginalized_parameters = {} \/ o_kind = "dict" THEN Goes("replace")
       ELSE IF o_kind = "other" \/ o_rows = 0 THEN Raises("ValueError")
       ELSE IF likelihood.reconstruction_fails
       THEN /\ o_log' = o_log \cup {"reconstruction"}
            /\ o_pc' = "replace"
            /\ UNCHANGED <<heap, output_sample, o_error>>
       ELSE Writes(WithReconstructed(heap[output_sample], likelihood), "replace")
    /\ UNCHANGED <<orchConfig, priors, reconVars, massVars, specificVars, callVars>>

\* lines 847-859: the priors of marginalized parameters are replaced by the
\* likelihood's, for a likelihood that holds a prior for each of them
ReplacePriors ==
    /\ o_pc = "replace"
    /\ priors' = IF priors.given
                 THEN [priors EXCEPT !.replaced = likelihood.marginalized_parameters]
                 ELSE priors
    /\ Goes("sky")
    /\ UNCHANGED <<orchConfig, reconVars, massVars, specificVars, callVars>>

\* lines 861-873 with 1710-1727
SkyFrame ==
    /\ o_pc = "sky"
    /\ IF likelihood.sky_frame THEN Goes("snr")
       ELSE IF o_kind = "other" THEN Raises("ValueError")
       ELSE IF o_kind = "DataFrame" /\ o_rows = 0 THEN Goes("snr")
       ELSE Writes(WithSkyFrame(heap[output_sample]), "snr")
    /\ UNCHANGED <<orchConfig, priors, reconVars, massVars, specificVars, callVars>>

\* lines 874-875 with 1404-1450; a container that is neither dict nor DataFrame has
\* iterrows and takes the columns, or has not
Snrs ==
    /\ o_pc = "snr"
    /\ \/ Writes(WithSnrs(heap[output_sample]), "mass")
       \/ /\ o_kind = "other"
          /\ Raises("AttributeError")
    /\ UNCHANGED <<orchConfig, priors, reconVars, massVars, specificVars, callVars>>

\* lines 876-884, generate_mass_parameters
MassFamily ==
    /\ o_pc = "mass"
    /\ Attempts("mass", generate_mass_parameters(heap[output_sample], FALSE), "spin")
    /\ UNCHANGED <<orchConfig, priors, reconVars, massVars, specificVars, callVars>>

\* lines 876-884, generate_spin_parameters
SpinFamily ==
    /\ o_pc = "spin"
    /\ Attempts("spin", generate_spin_parameters(heap[output_sample]), "source")
    /\ UNCHANGED <<orchConfig, priors, reconVars, massVars, specificVars, callVars>>

\* lines 876-885, generate_source_frame_parameters
SourceFrameFamily ==
    /\ o_pc = "source"
    /\ Attempts("source frame", generate_source_frame_parameters(heap[output_sample]),
                IF entry_point = "bns" THEN "tidal" ELSE "returned")
    /\ UNCHANGED <<orchConfig, priors, reconVars, massVars, specificVars, callVars>>

\* lines 943-948
TidalFamily ==
    /\ o_pc = "tidal"
    /\ Attempts("tidal", generate_tidal_parameters(heap[output_sample]), "returned")
    /\ UNCHANGED <<orchConfig, priors, reconVars, massVars, specificVars, callVars>>

\* ------------------------------------------------------------ generate_specific_parameters
SpecificKeyGroups ==
    {{"mass_1"}, {"mass_2"}, {"chirp_mass"}, {"mass_ratio"}, {"luminosity_distance"},
     {"chi_1", "chi_2"}, {"lambda_tilde"}, {"delta_phase"}}
RequestedKeys == {"mass_1", "chirp_mass", "lambda_tilde", "redshift", "chi_eff"}

SpecificInit ==
    /\ gsp_pc = "call"
    /\ gsp_sample \in {InputSample(UNION gs) : gs \in SUBSET SpecificKeyGroups}
    /\ gsp_parameters \in SUBSET RequestedKeys
    /\ gsp_result = Returned(EmptyDict)

\* no conversion function is being applied
NoArgs == [x \in {} |-> ""]
CallIdle ==
    /\ call_pc = "idle"
    /\ args = NoArgs
    /\ result = NoArgs

SpecificIdle ==
    /\ gsp_pc = "idle"
    /\ gsp_sample = EmptyDict
    /\ gsp_parameters = {}
    /\ gsp_result = Returned(EmptyDict)

\* lines 976-982: the requested keys of the completed sample, in a new container
ProjectedWhereHeld(updated_sample, requested) ==
    Returned([key \in requested \cap DOMAIN updated_sample |-> updated_sample[key]])
Projected(updated_sample, requested) ==
    IF requested \subseteq DOMAIN updated_sample
    THEN Returned([key \in requested |-> updated_sample[key]])
    ELSE KeyError("not in converted sample.")

\* line 975: generate_all_bns_parameters(sample=sample.copy()), with no likelihood
\* and no priors
SpecificCall ==
    /\ gsp_pc = "call"
    /\ o_pc = "idle"
    /\ gsp_pc' = "pipeline"
    /\ heap' = <<gsp_sample>>
    /\ given' = gsp_sample
    /\ output_sample' = 0
    /\ likelihood' = NoLikelihood
    /\ priors' = NoPriors
    /\ entry_point' = "bns"
    /\ o_pc' = "seed"
    /\ o_kind' \in {"dict", "DataFrame"}
    /\ UNCHANGED <<o_rows, o_error, o_log, gsp_sample, gsp_parameters, gsp_result,
                   reconVars, massVars, callVars>>

\* lines 976-982, or the exception of the pipeline going through
Project ==
    /\ gsp_pc = "pipeline"
    /\ o_pc \in {"returned", "raised"}
    /\ gsp_result' = IF o_pc = "raised"
                     THEN [status |-> o_error, value |-> EmptyDict, what |-> ""]
                     ELSE Projected(heap[output_sample], gsp_parameters)
    /\ gsp_pc' = "done"
    /\ UNCHANGED <<gsp_sample, gsp_parameters, orchVars, reconVars, massVars, callVars>>

\* the steps of one call
Engine ==
    \/ PassThrough \/ LoadCache \/ SkipBlock \/ BeginBlock \/ TaskStart
    \/ TaskComplete \/ TaskFails \/ StoreBlock \/ DumpCache \/ Advance \/ Assign \/ Finish \/ Kill

vars == <<reconVars, massVars, orchVars, specificVars, callVars>>

\* calls on any table, one after the other
Init ==
    /\ ReconInit
    /\ prev = NoPrev
    /\ MassIdle
    /\ OrchIdle
    /\ SpecificIdle
    /\ CallIdle

Next == Call \/ Engine

Spec == Init /\ [][Next]_vars

\* one table and one likelihood, on which the call is repeated after it returned or
\* was killed
InitResume ==
    /\ ReconInit
    /\ MassIdle
    /\ OrchIdle
    /\ SpecificIdle
    /\ CallIdle
    /\ prev \in {[NoPrev EXCEPT !.pinned = TRUE, !.samples = tbl, !.kind = k, !.nmarg = m] :
                    tbl \in Tables, k \in Kinds, m \in 0..1}

NextResume == Recall \/ Engine

SpecResume == InitResume /\ [][NextResume]_vars

\* generate_component_masses and generate_mass_parameters applied to every set of mass keys
InitMass ==
    /\ ReconIdle
    /\ MassInit
    /\ OrchIdle
    /\ SpecificIdle
    /\ CallIdle

NextMass == GenerateComponentMasses \/ GenerateMassParameters

SpecMass == InitMass /\ [][NextMass]_vars

\* one call of generate_all_bbh_parameters or generate_all_bns_parameters
InitOrch ==
    /\ ReconIdle
    /\ MassIdle
    /\ OrchInit
    /\ SpecificIdle
    /\ CallIdle

NextOrch ==
    \/ Seed \/ FixedPriors \/ BaseConversion \/ PerDetectorLogLikelihoods
    \/ Reconstruction \/ ReplacePriors \/ SkyFrame \/ Snrs
    \/ MassFamily \/ SpinFamily \/ SourceFrameFamily \/ TidalFamily

SpecOrch == InitOrch /\ [][NextOrch]_vars

\* one call of generate_specific_parameters on a single point or a table
\* ------------------------------------------------ bilby_to_lalsimulation_spins
\* floats as terms: "0" and "pi" are the two constants the code compares with, any
\* other name is a finite value different from both
Zero == <<"0">>
Pi == <<"pi">>
\* np.cos
Cos(x) == IF x = Zero THEN <<"1">> ELSE IF x = Pi THEN <<"-1">> ELSE F1("cos", x)
\* a * c on finite floats: 0 * c == 0
Times(a, c) == IF a = Zero THEN Zero ELSE IF c = <<"1">> THEN a ELSE F2("mul", a, c)

\* line 130: the test for the fast path
NonPrecessingIfBothAligned(a) ==
    (a.a_1 = Zero /\ a.a_2 = Zero) \/ (a.tilt_1 \in {Zero, Pi} /\ a.tilt_2 \in {Zero, Pi})
NonPrecessingIfZeroAndAligned(a) ==
    (a.a_1 = Zero /\ a.tilt_1 \in {Zero, Pi}) /\ (a.a_2 = Zero /\ a.tilt_2 \in {Zero, Pi})
NonPrecessing(a) ==
    (a.a_1 = Zero \/ a.tilt_1 \in {Zero, Pi}) /\ (a.a_2 = Zero \/ a.tilt_2 \in {Zero, Pi})

\* lines 139-149: the frame transform applied, and the routine it was made with
Transformed(a, what) ==
    <<IF a.float_inputs THEN "lalsim_SimInspiralTransformPrecessingNewInitialConditions"
      ELSE "transform_precessing_spins", what>>

bilby_to_lalsimulation_spins(a) ==
    IF NonPrecessing(a)
    THEN [iota |-> a.theta_jn,
          spin_1x |-> Zero, spin_1y |-> Zero, spin_1z |-> Times(a.a_1, Cos(a.tilt_1)),
          spin_2x |-> Zero, spin_2y |-> Zero, spin_2z |-> Times(a.a_2, Cos(a.tilt_2)),
          func |-> "none"]
    ELSE [iota |-> Transformed(a, "iota"),
          spin_1x |-> Transformed(a, "spin_1x"), spin_1y |-> Transformed(a, "spin_1y"),
          spin_1z |-> Transformed(a, "spin_1z"),
          spin_2x |-> Transformed(a, "spin_2x"), spin_2y |-> Transformed(a, "spin_2y"),
          spin_2z |-> Transformed(a, "spin_2z"),
          func |-> Transformed(a, "")[1]]

\* every combination of zero and non-zero magnitudes, aligned and tilted spins
SpinArguments ==
    [theta_jn : {Zero, <<"theta_jn">>},
     tilt_1 : {Zero, Pi, <<"tilt_1">>}, tilt_2 : {Zero, Pi, <<"tilt_2">>},
     a_1 : {Zero, <<"a_1">>}, a_2 : {Zero, <<"a_2">>},
     float_inputs : BOOLEAN]

SpinsInit ==
    /\ call_pc = "call"
    /\ args \in SpinArguments
    /\ result = NoArgs

BilbyToLalsimulationSpins ==
    /\ call_pc = "call"
    /\ result' = bilby_to_lalsimulation_spins(args)
    /\ call_pc' = "done"
    /\ UNCHANGED <<args, reconVars, massVars, orchVars, specificVars>>

InitSpins ==
    /\ ReconIdle
    /\ MassIdle
    /\ OrchIdle
    /\ SpecificIdle
    /\ SpinsInit

NextSpins == BilbyToLalsimulationSpins

SpecSpins == InitSpins /\ [][NextSpins]_vars

\* ------------------------------------------------ the mass conversion functions
\* Exact arithmetic on the positive reals the functions meet: a number is the k-th
\* root of a fraction, [rad |-> <<n, d>>, k |-> k], and a fraction is the case k = 1.
RECURSIVE GCD(_, _)
GCD(a, b) == IF b = 0 THEN a ELSE GCD(b, a % b)

Fraction(n, d) == <<n \div GCD(n, d), d \div GCD(n, d)>>
FMul(a, b) ==
    <<(a[1] \div GCD(a[1], b[2])) * (b[1] \div GCD(b[1], a[2])),
      (a[2] \div GCD(b[1], a[2])) * (b[2] \div GCD(a[1], b[2]))>>
FPow(a, p) == <<a[1] ^ p, a[2] ^ p>>

\* the integers whose powers are looked for when a root is taken
Roots(k) == IF k = 2 THEN 0..1000 ELSE IF k = 3 THEN 0..200 ELSE IF k <= 5 THEN 0..64 ELSE 0..7
IsPower(n, k) == \E x \in Roots(k) : x ^ k = n
RootOf(n, k) == CHOOSE x \in Roots(k) : x ^ k = n

\* a root that comes out even is a fraction
Number(f, k) ==
    IF k > 1 /\ IsPower(f[1], k) /\ IsPower(f[2], k)
    THEN [rad |-> <<RootOf(f[1], k), RootOf(f[2], k)>>, k |-> 1]
    ELSE [rad |-> f, k |-> k]
Whole(n) == [rad |-> <<n, 1>>, k |-> 1]

\* x * y, x / y, x ** (p / q), and on fractions x + y, x - y
Mul(x, y) ==
    IF x.k = y.k THEN Number(FMul(x.rad, y.rad), x.k)
    ELSE Number(FMul(FPow(x.rad, y.k), FPow(y.rad, x.k)), x.k * y.k)
Inverse(x) == [rad |-> <<x.rad[2], x.rad[1]>>, k |-> x.k]
Div(x, y) == Mul(x, Inverse(y))
Pow(x, p, q) == Number(FPow(x.rad, p \div GCD(p, x.k)), (x.k \div GCD(p, x.k)) * q)
Add(x, y) ==
    [rad |-> Fraction(x.rad[1] * y.rad[2] + y.rad[1] * x.rad[2], x.rad[2] * y.rad[2]), k |-> 1]
Sub(x, y) ==
    [rad |-> Fraction(x.rad[1] * y.rad[2] - y.rad[1] * x.rad[2], x.rad[2] * y.rad[2]), k |-> 1]
Less(x, y) == x.rad[1] * y.rad[2] < y.rad[1] * x.rad[2]

\* lines 543-620: component masses to the derived mass parameters
component_masses_to_chirp_mass(mass_1, mass_2) ==
    Div(Pow(Mul(mass_1, mass_2), 3, 5), Pow(Add(mass_1, mass_2), 1, 5))
component_masses_to_total_mass(mass_1, mass_2) == Add(mass_1, mass_2)
component_masses_to_symmetric_mass_ratio(mass_1, mass_2) ==
    LET eta == Div(Mul(mass_1, mass_2), Pow(Add(mass_1, mass_2), 2, 1))
        quarter == [rad |-> <<1, 4>>, k |-> 1]
    IN  IF Less(quarter, eta) THEN quarter ELSE eta
component_masses_to_mass_ratio(mass_1, mass_2) == Div(mass_2, mass_1)

\* lines 400-467 and 518-540: the inverse functions
total_mass_and_mass_ratio_to_component_masses(mass_ratio, total_mass) ==
    LET mass_1 == Div(total_mass, Add(Whole(1), mass_ratio))
    IN  [mass_1 |-> mass_1, mass_2 |-> Mul(mass_1, mass_ratio)]
chirp_mass_and_mass_ratio_to_total_mass(chirp_mass, mass_ratio) ==
    Div(Mul(chirp_mass, Pow(Add(Whole(1), mass_ratio), 6, 5)), Pow(mass_ratio, 3, 5))
chirp_mass_and_mass_ratio_to_component_masses(chirp_mass, mass_ratio) ==
    total_mass_and_mass_ratio_to_component_masses(
        mass_ratio, chirp_mass_and_mass_ratio_to_total_mass(chirp_mass, mass_ratio))
symmetric_mass_ratio_to_mass_ratioLargerRoot(symmetric_mass_ratio) ==
    LET temp == Sub(Div(Div(Whole(1), symmetric_mass_ratio), Whole(2)), Whole(1))
    IN  Add(temp, Pow(Sub(Pow(temp, 2, 1), Whole(1)), 1, 2))
symmetric_mass_ratio_to_mass_ratio(symmetric_mass_ratio) ==
    LET temp == Sub(Div(Div(Whole(1), symmetric_mass_ratio), Whole(2)), Whole(1))
    IN  Sub(temp, Pow(Sub(Pow(temp, 2, 1), Whole(1)), 1, 2))
chirp_mass_and_total_mass_to_symmetric_mass_ratio(chirp_mass, total_mass) ==
    Pow(Div(chirp_mass, total_mass), 5, 3)

\* the component masses from a pair of derived parameters that fixes them
SpanningPairs ==
    {{"chirp_mass", "total_mass"}, {"chirp_mass", "mass_ratio"},
     {"chirp_mass", "symmetric_mass_ratio"}, {"total_mass", "mass_ratio"},
     {"total_mass", "symmetric_mass_ratio"}}
ComponentMassesFrom(pair, d) ==
    LET mass_ratio ==
            IF "mass_ratio" \in pair THEN d.mass_ratio
            ELSE IF "symmetric_mass_ratio" \in pair
            THEN symmetric_mass_ratio_to_mass_ratio(d.symmetric_mass_ratio)
            ELSE symmetric_mass_ratio_to_mass_ratio(
                     chirp_mass_and_total_mass_to_symmetric_mass_ratio(
                         d.chirp_mass, d.total_mass))
    IN  IF "total_mass" \in pair
        THEN total_mass_and_mass_ratio_to_component_masses(mass_ratio, d.total_mass)
        ELSE chirp_mass_and_mass_ratio_to_component_masses(d.chirp_mass, mass_ratio)

RoundTripInit ==
    /\ call_pc = "call"
    /\ args \in {[mass_1 |-> Whole(m1), mass_2 |-> Whole(m2), pair |-> p] :
                    m1 \in 2..MaxMass, m2 \in 1..MaxMass, p \in SpanningPairs}
    /\ args.mass_2.rad[1] < args.mass_1.rad[1]
    /\ result = NoArgs

\* the four derived parameters of the component masses
Forward ==
    /\ call_pc = "call"
    /\ result' = [chirp_mass |-> component_masses_to_chirp_mass(args.mass_1, args.mass_2),
                  total_mass |-> component_masses_to_total_mass(args.mass_1, args.mass_2),
                  mass_ratio |-> component_masses_to_mass_ratio(args.mass_1, args.mass_2),
                  symmetric_mass_ratio |->
                      component_masses_to_symmetric_mass_ratio(args.mass_1, args.mass_2)]
    /\ call_pc' = "forward"
    /\ UNCHANGED <<args, reconVars, massVars, orchVars, specificVars>>

\* the component masses back from one spanning pair of them
Back ==
    /\ call_pc = "forward"
    /\ result' = ComponentMassesFrom(args.pair, result)
    /\ call_pc' = "done"
    /\ UNCHANGED <<args, reconVars, massVars, orchVars, specificVars>>

InitRoundTrip ==
    /\ ReconIdle
    /\ MassIdle
    /\ OrchIdle
    /\ SpecificIdle
    /\ RoundTripInit

NextRoundTrip == Forward \/ Back

SpecRoundTrip == InitRoundTrip /\ [][NextRoundTrip]_vars

\* ------------------------------------------------ the base converters, as called
\* A list of keys as the number of times each key is in it.
AddedKeys(converted_parameters, original_keys) ==
    [key \in (DOMAIN converted_parameters) \ original_keys |-> 1]
\* added_keys + ['lambda_1', 'lambda_2']
ConcatenatedFirstOnly(l1, l2) == l1
Concatenated(l1, l2) ==
    [key \in (DOMAIN l1) \cup (DOMAIN l2) |->
        (IF key \in DOMAIN l1 THEN l1[key] ELSE 0) + (IF key \in DOMAIN l2 THEN l2[key] ELSE 0)]

\* what a converter hands back: (converted_parameters, added_keys), or the error raised
Converted(parameters, r, added) ==
    IF r.status = "returned"
    THEN [status |-> "returned", value |-> r.value, added_keys |-> added, what |-> ""]
    ELSE [status |-> r.status, value |-> EmptyDict, added_keys |-> NoArgs, what |-> r.what]

black_hole_conversion(parameters) ==
    LET r == convert_to_lal_binary_black_hole_parameters(parameters)
    IN  Converted(parameters, r, AddedKeys(r.value, DOMAIN parameters))

neutron_star_conversion(parameters, eos) ==
    LET bbh == black_hole_conversion(parameters)
        r == convert_to_lal_binary_neutron_star_parameters(parameters, eos)
    IN  IF bbh.status = "returned" /\ (DOMAIN bbh.value) \cap TidalKeys = {}
        THEN Converted(parameters, r,
                 Concatenated(bbh.added_keys, [key \in {"lambda_1", "lambda_2"} |-> 1]))
        ELSE Converted(parameters, r, AddedKeys(r.value, DOMAIN parameters))

ConverterKeyGroups ==
    {{"mass_1"}, {"mass_2"}, {"chirp_mass_source"}, {"mass_1_source"},
     {"luminosity_distance"}, {"redshift"}, {"comoving_distance"},
     {"chi_1"}, {"chi_1_in_plane"}, {"a_1"}, {"delta_phase", "theta_jn", "psi"},
     {"lambda_1"}, {"lambda_2"}, {"lambda_tilde"}, {"delta_lambda_tilde"},
     {"eos_spectral_gamma_0"}}

ConvertInit ==
    /\ call_pc = "call"
    /\ args \in {[parameters |-> InputSample(UNION gs), converter |-> c, eos |-> e] :
                    gs \in SUBSET ConverterKeyGroups, c \in {"bbh", "bns"}, e \in EosOutcomes}
    /\ (args.converter = "bbh" \/ ~Has(args.parameters, "eos_spectral_gamma_0"))
          => args.eos = "warning_flag"
    /\ result = NoArgs

Convert ==
    /\ call_pc = "call"
    /\ result' = IF args.converter = "bbh" THEN black_hole_conversion(args.parameters)
                 ELSE neutron_star_conversion(args.parameters, args.eos)
    /\ call_pc' = "done"
    /\ UNCHANGED <<args, reconVars, massVars, orchVars, specificVars>>

InitConvert ==
    /\ ReconIdle
    /\ MassIdle
    /\ OrchIdle
    /\ SpecificIdle
    /\ ConvertInit

NextConvert == Convert

SpecConvert == InitConvert /\ [][NextConvert]_vars

\* ------------------------------------------------ the orchestrator with the engine
\* lines 836-839: the reconstruction is called when the likelihood declares
\* marginalized parameters; use_cache and block are left to their defaults
ReconstructionBegins ==
    /\ o_pc = "recon"
    /\ pc = "idle"
    /\ IF likelihood.marginalized_parameters = {}
       THEN /\ Goes("replace")
            /\ UNCHANGED reconVars
       ELSE /\ o_pc' = "in_recon"
            /\ samples' = prev.samples
            /\ kind' = o_kind
            /\ nmarg' = Cardinality(likelihood.marginalized_parameters)
            /\ use_cache' = TRUE
            /\ \E o \in BOOLEAN, c \in BOOLEAN, p \in 1..MaxPool :
                  /\ has_outdir' = o
                  /\ clean' = c
                  /\ npool' = p
            /\ pc' = "entry"
            /\ cached_samples_dict' = FreshDict(<<>>)
            /\ ii' = 0
            /\ next_task' = 0
            /\ running' = {}
            /\ lik_parameters' = NoParameters
            /\ arrived' = <<>>
            /\ column' = NoColumn
            /\ calls' = {}
            /\ loaded' = <<>>
            /\ UNCHANGED <<block, disk, prev, heap, output_sample, o_error, o_log>>
    /\ UNCHANGED <<orchConfig, priors, massVars, specificVars, callVars>>

ReconstructionEndsPropagating ==
    /\ o_pc = "in_recon"
    /\ pc \in {"returned", "raised", "failed"}
    /\ IF pc = "raised" THEN Raises("ValueError")
       ELSE IF pc = "failed" THEN Raises("MarginalizedLikelihoodReconstructionError")
       ELSE IF column.set
       THEN Writes(WithReconstructed(heap[output_sample], likelihood), "replace")
       ELSE Goes("replace")
    /\ prev' = prev
    /\ pc' = "idle"
    /\ samples' = <<>>
    /\ kind' = "DataFrame"
    /\ nmarg' = 1
    /\ has_outdir' = TRUE
    /\ use_cache' = TRUE
    /\ clean' = FALSE
    /\ npool' = 1
    /\ cached_samples_dict' = FreshDict(<<>>)
    /\ ii' = 0
    /\ next_task' = 0
    /\ running' = {}
    /\ lik_parameters' = NoParameters
    /\ arrived' = <<>>
    /\ column' = NoColumn
    /\ calls' = {}
    /\ loaded' = <<>>
    /\ UNCHANGED <<block, disk>>
    /\ UNCHANGED <<orchConfig, priors, massVars, specificVars, callVars>>

\* lines 839-846: the reconstruction returned, raised, or raised the declared
\* reconstruction failure, which is caught and logged
ReconstructionEnds ==
    /\ o_pc = "in_recon"
    /\ pc \in {"returned", "raised", "failed"}
    /\ IF pc = "raised" THEN Raises("ValueError")
       ELSE IF pc = "failed"
       THEN /\ o_log' = o_log \cup {"reconstruction"}
            /\ o_pc' = "replace"
            /\ UNCHANGED <<heap, output_sample, o_error>>
       ELSE IF column.set
       THEN Writes(WithReconstructed(heap[output_sample], likelihood), "replace")
       ELSE Goes("replace")
    /\ prev' = prev
    /\ pc' = "idle"
    /\ samples' = <<>>
    /\ kind' = "DataFrame"
    /\ nmarg' = 1
    /\ has_outdir' = TRUE
    /\ use_cache' = TRUE
    /\ clean' = FALSE
    /\ npool' = 1
    /\ cached_samples_dict' = FreshDict(<<>>)
    /\ ii' = 0
    /\ next_task' = 0
    /\ running' = {}
    /\ lik_parameters' = NoParameters
    /\ arrived' = <<>>
    /\ column' = NoColumn
    /\ calls' = {}
    /\ loaded' = <<>>
    /\ UNCHANGED <<block, disk>>
    /\ UNCHANGED <<orchConfig, priors, massVars, specificVars, callVars>>

\* the cache file left by a run on tbl that was killed after its first block
FirstBlockFile(tbl, b) ==
    [kind |-> "file", samples |-> tbl,
     blocks |-> <<[key |-> 0, rows |-> [j \in 1..Min(b, Len(tbl)) |-> fill_sample(tbl[j])]]>>]

PipelineKeySets ==
    {{"mass_1", "mass_2", "luminosity_distance"}, {"chirp_mass", "mass_ratio"}, {"chi_1", "chi_2"}}

PipelineLikelihoods ==
    {lik \in Likelihoods : lik.waveform_arguments = {"reference_frequency"} \/ ~lik.present}

\* one call of the orchestrator on one sample: a single point, a table of any size
\* or another container, with or without a cache file from an earlier run
InitPipeline ==
    /\ ReconLocals
    /\ block \in 1..MaxBlock
    /\ o_kind \in Kinds
    /\ prev \in {[NoPrev EXCEPT !.pinned = TRUE, !.samples = tbl, !.kind = o_kind] :
                    tbl \in (IF o_kind = "DataFrame" THEN Tables ELSE {<<"a">>})}
    /\ disk \in {NoFile} \cup
                (IF prev.samples = <<>> THEN {} ELSE {FirstBlockFile(prev.samples, block)})
    /\ o_rows = Len(prev.samples)
    /\ o_pc = "seed"
    /\ heap \in {<<InputSample(ks)>> : ks \in PipelineKeySets}
    /\ given = heap[1]
    /\ output_sample = 0
    /\ likelihood \in PipelineLikelihoods
    /\ priors = NoPriors
    /\ entry_point \in {"bbh", "bns"}
    /\ o_error = ""
    /\ o_log = {}
    /\ MassIdle
    /\ SpecificIdle
    /\ CallIdle

NextPipeline ==
    \/ Seed \/ FixedPriors \/ BaseConversion \/ PerDetectorLogLikelihoods
    \/ ReconstructionBegins
    \/ PassThrough \/ LoadCache \/ SkipBlock \/ BeginBlock \/ TaskStart
    \/ TaskComplete \/ TaskFails \/ StoreBlock \/ DumpCache \/ Advance \/ Assign
    \/ ReconstructionEnds
    \/ ReplacePriors \/ SkyFrame \/ Snrs
    \/ MassFamily \/ SpinFamily \/ SourceFrameFamily \/ TidalFamily

SpecPipeline == InitPipeline /\ [][NextPipeline]_vars

\* one call of the orchestrator on a single point, a table of each length or another
\* container, with priors that may fix a waveform argument to one value
AlternatingTable(n) == [i \in 1..n |-> IF i % 2 = 1 THEN "a" ELSE "b"]
StagePriors == {NoPriors, [given |-> TRUE, fixed |-> {"minimum_frequency"}, replaced |-> {}]}

InitStages ==
    /\ ReconLocals
    /\ block \in 1..MaxBlock
    /\ o_kind \in Kinds
    /\ prev \in {[NoPrev EXCEPT !.pinned = TRUE, !.samples = tbl, !.kind = o_kind] :
                    tbl \in (IF o_kind = "DataFrame"
                             THEN {AlternatingTable(n) : n \in 0..MaxRows} ELSE {<<"a">>})}
    /\ disk \in {NoFile} \cup
                (IF prev.samples = <<>> THEN {} ELSE {FirstBlockFile(prev.samples, block)})
    /\ o_rows = Len(prev.samples)
    /\ o_pc = "seed"
    /\ heap \in {<<InputSample(ks)>> : ks \in PipelineKeySets}
    /\ given = heap[1]
    /\ output_sample = 0
    /\ likelihood \in PipelineLikelihoods
    /\ priors \in StagePriors
    /\ entry_point \in {"bbh", "bns"}
    /\ o_error = ""
    /\ o_log = {}
    /\ MassIdle
    /\ SpecificIdle
    /\ CallIdle

SpecStages == InitStages /\ [][NextPipeline]_vars

\* The call is made again on the same table with caching on, after it returned or was
\* killed, with whatever block size: block is an argument of each call (line 1584).
RecallAnyBlock ==
    /\ pc = "idle"
    /\ prev.pinned
    /\ \E p \in 1..MaxPool, b \in 1..MaxBlock :
        /\ npool' = p
        /\ block' = b
    /\ has_outdir' = TRUE
    /\ use_cache' = TRUE
    /\ clean' = FALSE
    /\ prev' = [prev EXCEPT !.reused = TRUE]
    /\ samples' = prev.samples
    /\ kind' = prev.kind
    /\ nmarg' = prev.nmarg
    /\ pc' = "entry"
    /\ cached_samples_dict' = FreshDict(<<>>)
    /\ ii' = 0
    /\ next_task' = 0
    /\ running' = {}
    /\ lik_parameters' = NoParameters
    /\ arrived' = <<>>
    /\ column' = NoColumn
    /\ calls' = {}
    /\ loaded' = <<>>
    /\ UNCHANGED <<nonRecon, disk>>

NextReblock == RecallAnyBlock \/ Engine

SpecReblock == InitResume /\ [][NextReblock]_vars

InitSpecific ==
    /\ ReconIdle
    /\ MassIdle
    /\ OrchIdle
    /\ SpecificInit
    /\ CallIdle

NextSpecific ==
    \/ SpecificCall \/ Project
    \/ Seed \/ FixedPriors \/ BaseConversion \/ MassFamily \/ SpinFamily
    \/ SourceFrameFamily \/ TidalFamily

SpecSpecific == InitSpecific /\ [][NextSpecific]_vars

\* -------------------------------------------------- claims on the reconstruction engine
Rows == 0 .. (Len(samples) - 1)
Reconstructing == pc \notin {"idle", "entry"} /\ kind = "DataFrame" /\ nmarg > 0
Reconstructed == [k \in 1..Len(samples) |-> fill_sample(samples[k])]
KeysIncrease(blocks) ==
    \A i, j \in 1..Len(blocks) : i < j => blocks[i].key < blocks[j].key
RowsOf(blocks) ==
    UNION {blocks[i].key .. (blocks[i].key + Len(blocks[i].rows) - 1) : i \in 1..Len(blocks)}

C3_LoadStep ==
    (pc = "entry" /\ pc' = "loop") =>
        LET reuse == /\ use_cache /\ has_outdir /\ ~clean
                     /\ disk.kind = "file" /\ disk.samples = samples
        IN  /\ reuse => loaded' = disk.blocks
            /\ ~reuse => loaded' = <<>>
            /\ cached_samples_dict'.blocks = loaded'
            /\ cached_samples_dict'.samples = samples
C3_CacheReuseAllOrNothing ==
    /\ [][C3_LoadStep]_vars
    /\ []((pc = "returned" /\ column.set /\ loaded = <<>>) => calls = Rows)

\* a call that has just discarded a cache file whose table differs in one cell
C3_Witness ==
    /\ pc = "loop" /\ ii = 0 /\ calls = {} /\ use_cache /\ ~clean
    /\ disk.kind = "file" /\ disk.blocks # <<>>
    /\ Len(disk.samples) = Len(samples)
    /\ Cardinality({k \in 1..Len(samples) : disk.samples[k] # samples[k]}) = 1
    /\ loaded = <<>> /\ cached_samples_dict.blocks = <<>>

\* C4: with caching enabled the cache file holds every block completed before the
\* block in flight, and a call repeated on the same table after a kill recomputes
\* only rows of the block that was in flight at the kill.
C4_Persisted ==
    (Reconstructing /\ use_cache /\ pc \in {"loop", "fill", "dump", "advance"}) =>
        \A i \in 1..Len(cached_samples_dict.blocks) :
            cached_samples_dict.blocks[i].key < ii =>
                /\ disk.kind = "file"
                /\ disk.samples = samples
                /\ \E j \in 1..Len(disk.blocks) :
                      disk.blocks[j] = cached_samples_dict.blocks[i]
Called == gcm_pc = "done"
InM1 == Has(sample, mass_1_key(source))
InM2 == Has(sample, mass_2_key(source))
InTotal == Has(sample, total_mass_key(source))
InChirp == Has(sample, chirp_mass_key(source))
InRatio == Has(sample, "mass_ratio") \/ Has(sample, "symmetric_mass_ratio")
OutValue == gcm_result.value
KeepsInput == \A k \in DOMAIN sample : Has(OutValue, k) /\ OutValue[k] = sample[k]
TreatedAsInsufficient ==
    IF require_add THEN gcm_result.status = "KeyError"
    ELSE gcm_result = Returned(sample)

\* the inputs from which the missing component masses cannot be derived
Insufficient ==
    \/ InM1 /\ ~InM2 /\ ~InTotal /\ ~InRatio /\ ~InChirp
    \/ InM2 /\ ~InM1 /\ ~InTotal /\ ~InRatio /\ ~InChirp
    \/ ~InM1 /\ ~InM2 /\ ~((InTotal \/ InChirp) /\ InRatio) /\ ~(InTotal /\ InChirp)

\* C5: on every insufficient input, in each of the three branches,
\* generate_component_masses raises when require_add is true and returns the input
\* unchanged, raising nothing, when require_add is false.
C5_InsufficientInputs == (Called /\ Insufficient) => TreatedAsInsufficient

\* C6 as stated: with neither component in the input the components are added
\* exactly when total_mass or chirp_mass comes with mass_ratio or symmetric_mass_ratio.
C6_AsStated ==
    (Called /\ ~InM1 /\ ~InM2) =>
        IF (InTotal \/ InChirp) /\ InRatio
        THEN /\ gcm_result.status = "returned"
             /\ {total_mass_key(source), "mass_ratio", mass_1_key(source),
                 mass_2_key(source)} \subseteq DOMAIN OutValue
        ELSE TreatedAsInsufficient

\* C6 as amended: with neither component in the input the components are added
\* exactly when total_mass or chirp_mass comes with mass_ratio or
\* symmetric_mass_ratio, or total_mass comes with chirp_mass; the output then holds
\* total_mass, mass_ratio, mass_1 and mass_2, and every other input counts as
\* insufficient.
C6_NeitherComponent ==
    (Called /\ ~InM1 /\ ~InM2) =>
        IF ((InTotal \/ InChirp) /\ InRatio) \/ (InTotal /\ InChirp)
        THEN /\ gcm_result.status = "returned"
             /\ {total_mass_key(source), "mass_ratio", mass_1_key(source),
                 mass_2_key(source)} \subseteq DOMAIN OutValue
             /\ KeepsInput
        ELSE TreatedAsInsufficient

\* the components were added from total_mass and chirp_mass alone
C6_Witness ==
    /\ Called /\ ~InM1 /\ ~InM2 /\ InTotal /\ InChirp /\ ~InRatio
    /\ gcm_result.status = "returned"
    /\ Has(OutValue, mass_1_key(source)) /\ Has(OutValue, mass_2_key(source))

\* the other component as derived from the first available of total_mass,
\* mass_ratio, symmetric_mass_ratio, chirp_mass
RatioUsed ==
    IF Has(sample, "mass_ratio") THEN sample["mass_ratio"]
    ELSE IF Has(sample, "symmetric_mass_ratio")
    THEN F1("symmetric_mass_ratio_to_mass_ratio", sample["symmetric_mass_ratio"])
    ELSE IF InM1
    THEN F2("mass_1_and_chirp_mass_to_mass_ratio",
            sample[mass_1_key(source)], sample[chirp_mass_key(source)])
    ELSE F2("mass_2_and_chirp_mass_to_mass_ratio",
            sample[mass_2_key(source)], sample[chirp_mass_key(source)])
OtherKey == IF InM1 THEN mass_2_key(source) ELSE mass_1_key(source)
GivenKey == IF InM1 THEN mass_1_key(source) ELSE mass_2_key(source)
OtherExpected ==
    IF InTotal THEN F2("sub", sample[total_mass_key(source)], sample[GivenKey])
    ELSE IF InM1 THEN F2("mul", RatioUsed, sample[GivenKey])
    ELSE F2("mul", F1("reciprocal", RatioUsed), sample[GivenKey])

\* C7: with exactly one component and at least one of total_mass, mass_ratio,
\* symmetric_mass_ratio, chirp_mass in the input, for both values of require_add the
\* result holds both components, the given one unchanged and the other derived from
\* the first available of the four in that order; mass_ratio is added only when
\* total_mass is absent, and nothing else is added.
C7_OneComponent ==
    (Called /\ (InM1 # InM2) /\ (InTotal \/ InRatio \/ InChirp)) =>
        /\ gcm_result.status = "returned"
        /\ KeepsInput
        /\ Has(OutValue, OtherKey) /\ OutValue[OtherKey] = OtherExpected
        /\ DOMAIN OutValue =
             (DOMAIN sample) \cup {OtherKey}
                \cup (IF InTotal THEN {} ELSE {"mass_ratio"})
        /\ ~InTotal => OutValue["mass_ratio"] = RatioUsed

\* mass_1 was derived from mass_2 and chirp_mass through an added mass_ratio
C7_Witness ==
    /\ Called /\ InM2 /\ ~InM1 /\ ~InTotal /\ ~InRatio /\ InChirp
    /\ gcm_result.status = "returned"
    /\ Has(OutValue, mass_1_key(source)) /\ Has(OutValue, "mass_ratio")
    /\ ~Has(sample, "mass_ratio")

Unsuffixed == {"mass_1", "mass_2", "total_mass", "chirp_mass"}
Suffixed == {"mass_1_source", "mass_2_source", "total_mass_source", "chirp_mass_source"}
Swap(k) ==
    CASE k = "mass_1" -> "mass_1_source" [] k = "mass_1_source" -> "mass_1"
      [] k = "mass_2" -> "mass_2_source" [] k = "mass_2_source" -> "mass_2"
      [] k = "total_mass" -> "total_mass_source" [] k = "total_mass_source" -> "total_mass"
      [] k = "chirp_mass" -> "chirp_mass_source" [] k = "chirp_mass_source" -> "chirp_mass"
      [] OTHER -> k
\* the sample with the suffixed and the unsuffixed names exchanged
Renamed(d) == [k \in {Swap(x) : x \in DOMAIN d} |-> d[Swap(k)]]
Without(d, ks) == [k \in (DOMAIN d) \ ks |-> d[k]]

\* C8: with source = true generate_component_masses does what it does with
\* source = false on the sample with mass_1, mass_2, total_mass, chirp_mass renamed
\* to their _source names (the same keys added, unchanged return or error, up to the
\* renaming), and the unsuffixed mass_1, mass_2, total_mass, chirp_mass are neither
\* read nor written.
C8_SourceFamily ==
    (Called /\ source) =>
        LET plain == generate_component_masses(Renamed(sample), require_add, FALSE)
            bare == generate_component_masses(Without(sample, Unsuffixed), require_add, TRUE)
        IN  /\ gcm_result.status = plain.status
            /\ gcm_result.what = plain.what
            /\ gcm_result.value = Renamed(plain.value)
            /\ gcm_result.status = bare.status
            /\ gcm_result.status = "returned" =>
                 /\ Without(OutValue, Unsuffixed) = Without(bare.value, Unsuffixed)
                 /\ \A k \in Unsuffixed :
                      /\ Has(OutValue, k) <=> Has(sample, k)
                      /\ Has(sample, k) => OutValue[k] = sample[k]

\* a source = true call on a sample that holds the unsuffixed total_mass but not
\* total_mass_source: mass_2_source comes from mass_ratio
C8_Witness ==
    /\ Called /\ source /\ gcm_result.status = "returned"
    /\ Has(sample, "total_mass") /\ ~Has(sample, "total_mass_source")
    /\ Has(sample, "mass_1_source") /\ ~Has(sample, "mass_2_source")
    /\ Has(sample, "mass_ratio")
    /\ OutValue["mass_2_source"] = F2("mul", sample["mass_ratio"], sample["mass_1_source"])

\* -------------------------------------------------- claims on the completion orchestrator
OrchStarted == o_pc \notin {"idle", "seed"}
CopyingStages == {"seed", "priors", "base", "mass", "spin", "source", "tidal"}
WritingStages == {"logl", "recon", "sky", "snr"}
Objects == 1 .. Len(heap)

C10_AsStated ==
    [][output_sample # 0 => heap'[output_sample] = heap[output_sample]]_vars

\* C10, amended: fill_from_fixed_priors, the base conversion and the mass, spin,
\* source-frame and tidal generators change no existing object and hand their
\* additions over in a new object; the per-detector log-likelihood, reconstruction,
\* sky-frame and SNR stages make no new object: what they add is written into the
\* object they were passed, which keeps all its keys, and no other object changes.
C10_StageEffect ==
    /\ o_pc \in CopyingStages =>
          /\ \A id \in Objects : heap'[id] = heap[id]
          /\ output_sample' # output_sample =>
                /\ output_sample' = Len(heap) + 1
                /\ Len(heap') = Len(heap) + 1
    /\ o_pc \in WritingStages =>
          /\ Len(heap') = Len(heap)
          /\ output_sample' = output_sample
          /\ \A id \in Objects \ {output_sample} : heap'[id] = heap[id]
          /\ DOMAIN heap[output_sample] \subseteq DOMAIN heap'[output_sample]
          /\ (o_pc = "snr" /\ o_pc' = "mass") =>
                {"H1_optimal_snr", "L1_optimal_snr", "H1_matched_filter_snr",
                 "L1_matched_filter_snr"} \subseteq DOMAIN heap'[output_sample]
          /\ (o_pc = "sky" /\ o_pc' = "snr" /\ ~likelihood.sky_frame /\ o_rows > 0) =>
                {"ra", "dec", "geocent_time"} \subseteq DOMAIN heap'[output_sample]
          /\ (o_pc = "logl" /\ o_pc' = "recon" /\ likelihood.per_detector
              /\ o_kind = "DataFrame") =>
                {"H1_log_likelihood", "L1_log_likelihood"}
                    \subseteq DOMAIN heap'[output_sample]
          /\ (o_pc = "recon" /\ o_pc' = "replace" /\ o_kind = "DataFrame"
              /\ "reconstruction" \notin o_log') =>
                likelihood.marginalized_parameters \subseteq DOMAIN heap'[output_sample]
C10_CopiedOrWrittenInPlace == [][C10_StageEffect]_vars

\* a table after the four writing stages: the caller's sample, the seeded copy, the
\* copy of the prior fill and the copy of the base conversion are the only objects
C10_Witness ==
    /\ o_pc = "mass"
    /\ o_kind = "DataFrame"
    /\ Len(heap) = 4
    /\ output_sample = 4
    /\ {"H1_log_likelihood", "luminosity_distance", "ra", "H1_optimal_snr"}
           \subseteq DOMAIN heap[output_sample]
    /\ ~Has(given, "luminosity_distance")

\* what the family about to be attempted makes of the working sample
FamilyOutcome ==
    CASE o_pc = "mass" -> generate_mass_parameters(heap[output_sample], FALSE)
      [] o_pc = "spin" -> generate_spin_parameters(heap[output_sample])
      [] o_pc = "source" -> generate_source_frame_parameters(heap[output_sample])
FamilyKey ==
    CASE o_pc = "mass" -> "mass" [] o_pc = "spin" -> "spin" [] o_pc = "source" -> "source frame"
AfterFamily ==
    CASE o_pc = "mass" -> {"spin"} [] o_pc = "spin" -> {"source"}
      [] o_pc = "source" -> {"tidal", "returned"}

\* C11: in the derived-family stage the mass, spin and source-frame families are
\* attempted once each, in that order.  A family that fails on a missing key is
\* logged, the call goes on to the next family, and the working sample is the same
\* object with the same keys and values as before the failed family; a family that
\* succeeds hands over exactly what it computed from that sample.
C11_FamilyStep ==
    o_pc \in {"mass", "spin", "source"} =>
        /\ o_pc' \in AfterFamily
        /\ o_error' = o_error
        /\ IF FamilyOutcome.status = "returned"
           THEN /\ heap'[output_sample'] = FamilyOutcome.value
                /\ o_log' = o_log
           ELSE /\ o_log' = o_log \cup {FamilyKey}
                /\ output_sample' = output_sample
                /\ heap' = heap
C11_FamiliesIsolated == [][C11_FamilyStep]_vars

\* the mass family failed, and after it the spin and source-frame families added
\* their keys to a sample that holds no key of the mass family
C11_Witness ==
    /\ o_pc = "returned"
    /\ o_log = {"mass"}
    /\ {"chi_eff", "redshift"} \subseteq DOMAIN heap[output_sample]
    /\ DOMAIN heap[output_sample] \cap {"total_mass", "chirp_mass", "mass_1", "mass_2",
                                        "symmetric_mass_ratio"} = {}

\* C13: with a non-default reference frame or time reference the sky-frame stage is
\* entered, and when the container is neither a dict nor a DataFrame the stage is
\* skipped: the call goes on to the SNR stage with no error and the working sample
\* as it was.
C13_SkyFrameStep ==
    (o_pc = "sky" /\ ~likelihood.sky_frame /\ o_kind = "other") =>
        /\ o_pc' = "snr"
        /\ o_error' = ""
        /\ heap' = heap
        /\ output_sample' = output_sample
C13_TypeMismatchSkipped == [][C13_SkyFrameStep]_vars

\* C20: right after the seed stage each of reference_frequency, waveform_approximant
\* and minimum_frequency of the working sample is the Likelihood's waveform argument
\* when a Likelihood configuring that key is given, and otherwise the default of the
\* entry point (50.0, IMRPhenomPv2 or TaylorF2, 20.0), whatever the input held.
C20_SeedValues ==
    o_pc = "priors" =>
        \A key \in {"reference_frequency", "waveform_approximant", "minimum_frequency"} :
            /\ Has(heap[output_sample], key)
            /\ heap[output_sample][key] =
                 IF likelihood.present /\ key \in likelihood.waveform_arguments
                 THEN <<"waveform_arguments", key>>
                 ELSE CASE key = "reference_frequency" -> <<"50.0">>
                        [] key = "minimum_frequency" -> <<"20.0">>
                        [] key = "waveform_approximant" /\ entry_point = "bbh"
                               -> <<"IMRPhenomPv2">>
                        [] key = "waveform_approximant" /\ entry_point = "bns"
                               -> <<"TaylorF2">>

\* the input holds a reference_frequency of its own and the Likelihood configures
\* reference_frequency only
C20_Witness ==
    /\ o_pc = "priors"
    /\ Has(given, "reference_frequency")
    /\ likelihood.present
    /\ likelihood.waveform_arguments = {"reference_frequency"}
    /\ heap[output_sample]["reference_frequency"] # given["reference_frequency"]
    /\ heap[output_sample]["minimum_frequency"] = <<"20.0">>

\* -------------------------------------------------- claims on generate_mass_parameters
\* the six mass keys of the family selected by source
SixMassKeys ==
    {mass_1_key(source), mass_2_key(source), total_mass_key(source), chirp_mass_key(source),
     "mass_ratio", "symmetric_mass_ratio"}
GivenMassKeys == (DOMAIN sample) \cap SixMassKeys

\* C18: when the input holds at least two of the six mass keys, and not just
\* mass_ratio with symmetric_mass_ratio, generate_mass_parameters returns a sample
\* with all six keys in which every key of the input has its input value.
C18_AllMassKeys ==
    (gmp_pc = "done" /\ Cardinality(GivenMassKeys) >= 2
     /\ GivenMassKeys # {"mass_ratio", "symmetric_mass_ratio"}) =>
        /\ gmp_result.status = "returned"
        /\ SixMassKeys \subseteq DOMAIN gmp_result.value
        /\ \A k \in DOMAIN sample :
              Has(gmp_result.value, k) /\ gmp_result.value[k] = sample[k]

\* from total_mass and chirp_mass alone the other four keys were added
C18_Witness ==
    /\ gmp_pc = "done" /\ ~source
    /\ GivenMassKeys = {"total_mass", "chirp_mass"}
    /\ gmp_result.status = "returned"
    /\ gmp_result.value["mass_1"] # gmp_result.value["mass_2"]
    /\ gmp_result.value["chirp_mass"] = <<"chirp_mass">>

\* -------------------------------------------------- claims on generate_specific_parameters
SpecificDone == gsp_pc = "done"
PipelineReturned == o_pc = "returned"
Completed == heap[output_sample]

\* C16 as stated: the call raises a key error exactly when a requested key is absent
\* from the completed sample, and otherwise returns exactly the requested keys with
\* the values of the completed sample.
C16_AsStated ==
    SpecificDone =>
        /\ gsp_result.status = "KeyError" <=>
              (PipelineReturned /\ ~(gsp_parameters \subseteq DOMAIN Completed))
        /\ gsp_result.status # "KeyError" =>
              /\ gsp_result.status = "returned"
              /\ DOMAIN gsp_result.value = gsp_parameters
              /\ \A key \in gsp_parameters : gsp_result.value[key] = Completed[key]

\* C16, amended: the pipeline runs on a copy of the input, which keeps its keys and
\* values.  The call raises a key error exactly when the pipeline's base conversion
\* raises one or a requested key is absent from the completed sample; otherwise it
\* returns exactly the requested keys with the values of the completed sample, so an
\* input key that was not requested is not returned.
C16_StrictProjection ==
    /\ gsp_pc \in {"pipeline", "done"} => heap[Caller] = gsp_sample
    /\ SpecificDone =>
          /\ gsp_result.status = "KeyError" <=>
                (~PipelineReturned \/ ~(gsp_parameters \subseteq DOMAIN Completed))
          /\ gsp_result.status # "KeyError" =>
                /\ gsp_result.status = "returned"
                /\ DOMAIN gsp_result.value = gsp_parameters
                /\ \A key \in gsp_parameters : gsp_result.value[key] = Completed[key]

\* derived keys were requested and returned, and input keys that were not requested
\* were left out
C16_Witness ==
    /\ SpecificDone
    /\ gsp_result.status = "returned"
    /\ gsp_parameters = {"chirp_mass", "redshift"}
    /\ DOMAIN gsp_sample = {"mass_1", "mass_2", "luminosity_distance"}

\* -------------------------------------------------- claims on the worker pool
\* all writes of the coordinating thread: the cache, the cache file, the table
CoordinatorWrites ==
    \/ cached_samples_dict' # cached_samples_dict
    \/ disk' # disk
    \/ column' # column

\* C19: while rows are computed by the workers of a pool, the likelihood state a
\* task reads holds that task's own row, whatever the other workers do; a task only
\* hands back a value; the table passed in is not changed by any task; and the cache,
\* the cache file and the output column are written only when no task is running.
C19_TaskStep ==
    (pc = "fill" /\ pc' \notin {"idle", "failed"}) =>
        /\ samples' = samples
        /\ CoordinatorWrites => (running = {} /\ next_task \notin BlockRows(ii))
        /\ \A r \in running \ running' :
              /\ Len(arrived') = Len(arrived) + 1
              /\ arrived'[Len(arrived')] = <<r, fill_sample(samples[r + 1])>>
C19_WorkersIsolated ==
    /\ []((pc = "fill") => \A r \in running : lik_parameters[r] = samples[r + 1])
    /\ [][C19_TaskStep]_vars

\* two workers are computing two rows that differ
C19_Witness ==
    /\ pc = "fill" /\ npool > 1
    /\ \E r, q \in running : r # q /\ lik_parameters[r] # lik_parameters[q]

\* ------------------------------------------------- claims on the no-op cases
NothingToReconstruct == pc # "idle" /\ (nmarg = 0 \/ kind = "dict")

\* C15: when the likelihood declares no marginalized parameter, or the input is a
\* single point, the reconstruction returns its input as it is: it never gets to
\* loading the cache, no row is handed to fill_sample, no worker runs, no column is
\* set, and the cache file and the input stay as they were.
C15_NoOpState ==
    NothingToReconstruct =>
        /\ pc \in {"entry", "returned"}
        /\ calls = {} /\ running = {} /\ arrived = <<>>
        /\ ~column.set
        /\ cached_samples_dict = FreshDict(<<>>) /\ loaded = <<>>
C15_NoOpStep ==
    (NothingToReconstruct /\ pc' # "idle") =>
        /\ pc' = "returned"
        /\ samples' = samples /\ kind' = kind
        /\ disk' = disk
        /\ use_cache' = use_cache
C15_NoOp == []C15_NoOpState /\ [][C15_NoOpStep]_vars

\* a single point was returned by a likelihood with a marginalized parameter, while a
\* cache file for the very same samples was there to be read
C15_Witness ==
    /\ pc = "returned" /\ kind = "dict" /\ nmarg > 0
    /\ use_cache /\ has_outdir /\ ~clean
    /\ disk.kind = "file" /\ disk.samples = samples /\ disk.blocks # <<>>

\* ------------------------------------------- claims on a failed reconstruction
ReconstructionFailed == "reconstruction" \in o_log
AfterReconstruction == {"replace", "sky", "snr", "mass", "spin", "source", "tidal", "returned"}
AfterSnrs == {"mass", "spin", "source", "tidal", "returned"}
HoldsReconstructed(smp, key) ==
    Has(smp, key) /\ smp[key] = <<"generate_posterior_sample_from_marginalized_likelihood", key>>

\* C12: when the likelihood declares marginalized parameters and the reconstruction
\* raises its declared failure at whatever block, the orchestrator goes on: the failed
\* call has set no column (a column is only ever set for all rows at once), the sample
\* holds no reconstructed value, the call never raises, every later stage is taken in
\* turn (sky frame, SNRs, each derived family), and the call returns.
C12_State ==
    /\ column.set => Len(column.rows) = Len(samples)
    /\ pc = "failed" =>
          /\ ~column.set
          /\ o_pc = "in_recon"
          /\ likelihood.marginalized_parameters # {}
          /\ ENABLED ReconstructionEnds
    /\ ReconstructionFailed =>
          /\ o_pc \in AfterReconstruction
          /\ o_error = ""
          /\ \A key \in likelihood.marginalized_parameters :
                ~HoldsReconstructed(heap[output_sample], key)
          /\ o_pc # "returned" => ENABLED NextPipeline
          /\ (o_pc \in AfterSnrs \cup {"snr"} /\ ~likelihood.sky_frame) =>
                \A key \in {"ra", "dec", "geocent_time"} :
                    heap[output_sample][key] = <<"get_sky_frame_parameters", key>>
          /\ o_pc \in AfterSnrs =>
                \A ifo \in Interferometers :
                    heap[output_sample][optimal_key(ifo)] = <<"calculate_snrs", optimal_key(ifo)>>
          /\ o_pc = "returned" =>
                /\ Has(heap[output_sample], "total_mass") \/ "mass" \in o_log
                /\ Has(heap[output_sample], "chi_eff") \/ "spin" \in o_log
                /\ Has(heap[output_sample], "redshift") \/ "source frame" \in o_log
C12_Step ==
    /\ pc = "failed" =>
          /\ o_pc' = "replace"
          /\ heap' = heap /\ output_sample' = output_sample
          /\ ReconstructionFailed'
    /\ (ReconstructionFailed /\ o_pc # "returned") =>
          /\ o_pc' \in AfterReconstruction \ {o_pc}
          /\ o_log \subseteq o_log'
C12_FailureNotFatal == []C12_State /\ [][C12_Step]_vars

\* the call returned after the reconstruction failed in the third block of a table:
\* the first two blocks are in the cache file
C12_Witness ==
    /\ o_pc = "returned" /\ ReconstructionFailed
    /\ o_rows = 3 /\ block = 1
    /\ disk.kind = "file" /\ Len(disk.blocks) = 2

\* --------------------------------------- claims on an unsupported container
\* the claim as stated: whatever the likelihood, both stages raise on a container
\* that is neither a single point nor a table
C14_AsStatedStep ==
    (o_kind = "other" /\ likelihood.present) =>
        /\ o_pc = "logl" => (o_pc' = "raised" /\ o_error' = "ValueError")
        /\ o_pc = "recon" => o_pc' # "replace"
C14_AsStated == [][C14_AsStatedStep]_vars

\* C14: on a container that is neither a single point nor a table, the per-detector
\* log-likelihood stage raises the unsupported-type error when the likelihood's
\* per-detector operation is callable, and the reconstruction raises it when the
\* likelihood declares marginalized parameters: at once, with no likelihood value
\* computed, no worker started and the cache neither loaded nor written, and the
\* orchestrator's call ends with that error. Without a callable per-detector operation
\* the first stage hands the container back, and without marginalized parameters the
\* reconstruction is not run.
C14_Step ==
    o_kind = "other" =>
        /\ o_pc = "logl" =>
              /\ IF likelihood.per_detector
                 THEN o_pc' = "raised" /\ o_error' = "ValueError"
                 ELSE o_pc' = "recon" /\ o_error' = ""
              /\ heap' = heap /\ output_sample' = output_sample
              /\ UNCHANGED reconVars
        /\ o_pc = "recon" =>
              /\ IF likelihood.marginalized_parameters = {}
                 THEN o_pc' = "replace" /\ pc' = "idle"
                 ELSE o_pc' = "in_recon" /\ pc' = "entry"
              /\ heap' = heap /\ disk' = disk
        /\ o_pc = "in_recon" =>
              /\ IF pc = "entry"
                 THEN pc' = "raised" /\ o_pc' = "in_recon"
                 ELSE o_pc' = "raised" /\ o_error' = "ValueError"
              /\ heap' = heap /\ output_sample' = output_sample
              /\ disk' = disk
C14_State ==
    /\ (o_kind = "other" /\ o_pc = "in_recon") =>
          /\ pc \in {"entry", "raised"}
          /\ calls = {} /\ running = {} /\ arrived = <<>>
          /\ loaded = <<>> /\ cached_samples_dict = FreshDict(<<>>)
          /\ ~column.set
          /\ ENABLED NextPipeline
    /\ o_pc = "raised" => ~ENABLED NextPipeline
C14_UnsupportedContainerRaises == []C14_State /\ [][C14_Step]_vars

\* the reconstruction raised on such a container and ended the call, with a cache
\* file on disk that it could have read
C14_Witness ==
    /\ o_kind = "other" /\ o_pc = "raised" /\ o_error = "ValueError"
    /\ ~likelihood.per_detector /\ likelihood.marginalized_parameters # {}
    /\ disk.kind = "file"

\* ------------------------------------- claims on the per-detector log-likelihoods
\* C17: with a likelihood whose per-detector log-likelihood operation is callable, the
\* sample the orchestrator returns holds the log-likelihood entry of every
\* interferometer, computed from that sample, for a single point and for a table.
C17_LogLikelihoodsReturned ==
    (o_pc = "returned" /\ likelihood.present /\ likelihood.per_detector) =>
        \A ifo \in Interferometers :
            /\ Has(heap[output_sample], log_likelihood_key(ifo))
            /\ heap[output_sample][log_likelihood_key(ifo)] =
                  <<"compute_per_detector_log_likelihood", log_likelihood_key(ifo)>>

\* ------------------------------------------- claims on bilby_to_lalsimulation_spins
SpinComponents(r) == <<r.spin_1x, r.spin_1y, r.spin_1z, r.spin_2x, r.spin_2y, r.spin_2z>>

\* C21: with a_1 = 0 and a_2 = 0, whatever the tilts and the other arguments, all six
\* Cartesian spin components returned are zero, the inclination returned is theta_jn
\* itself, and the frame-transform routine is not called.
C21_ZeroSpins ==
    (call_pc = "done" /\ args.a_1 = Zero /\ args.a_2 = Zero) =>
        /\ \A i \in 1..6 : SpinComponents(result)[i] = Zero
        /\ result.iota = args.theta_jn
        /\ result.func = "none"

\* both magnitudes are zero and both spins are tilted
C21_Witness ==
    /\ call_pc = "done" /\ args.a_1 = Zero /\ args.a_2 = Zero
    /\ args.tilt_1 \notin {Zero, Pi} /\ args.tilt_2 \notin {Zero, Pi}
    /\ args.theta_jn # Zero

FastPath ==
    /\ result.func = "none"
    /\ result.iota = args.theta_jn
    /\ result.spin_1x = Zero /\ result.spin_1y = Zero
    /\ result.spin_2x = Zero /\ result.spin_2y = Zero
    /\ result.spin_1z = Times(args.a_1, Cos(args.tilt_1))
    /\ result.spin_2z = Times(args.a_2, Cos(args.tilt_2))
Delegated ==
    /\ result.func \in {"lalsim_SimInspiralTransformPrecessingNewInitialConditions",
                        "transform_precessing_spins"}
    /\ result.iota = <<result.func, "iota">>
    /\ \A i \in 1..6 : SpinComponents(result)[i][1] = result.func

\* the claim as stated: the fast path is taken exactly when both magnitudes are zero
\* or both tilts are 0 or pi
C25_AsStated ==
    call_pc = "done" =>
        IF (args.a_1 = Zero /\ args.a_2 = Zero)
              \/ (args.tilt_1 \in {Zero, Pi} /\ args.tilt_2 \in {Zero, Pi})
        THEN FastPath ELSE Delegated

\* C25: the fast path (z-components a * cos(tilt), x and y zero, theta_jn passed
\* through, no call of the frame-transform routine) is taken exactly when each of the
\* two spins has zero magnitude or a tilt of exactly 0 or pi; every other combination
\* is handed to the frame-transform routine.
C25_FastPathPerSpin ==
    call_pc = "done" =>
        IF (args.a_1 = Zero \/ args.tilt_1 \in {Zero, Pi})
              /\ (args.a_2 = Zero \/ args.tilt_2 \in {Zero, Pi})
        THEN FastPath ELSE Delegated

\* one spin is zero and tilted, the other is not zero and anti-aligned
C25_Witness ==
    /\ call_pc = "done"
    /\ args.a_1 = Zero /\ args.tilt_1 \notin {Zero, Pi}
    /\ args.a_2 # Zero /\ args.tilt_2 = Pi
    /\ result.func = "none"
    /\ result.spin_2z = <<"a_2", "-1", "mul">>

\* ------------------------------------------------ claims on spin generation
NoSpinPrerequisites(smp) ==
    /\ ~(spin_conversion_parameters \subseteq DOMAIN smp)
    /\ ~(Has(smp, "chi_1") /\ Has(smp, "chi_2"))
SpinKeysRead == {"spin_1z", "spin_2z", "mass_ratio", "spin_1x", "spin_1y", "spin_2x", "spin_2y"}

\* the claim as stated: without the eleven spherical keys and without chi_1 and chi_2,
\* generate_spin_parameters raises nothing and returns its input
C22_AsStated ==
    (o_pc = "spin" /\ NoSpinPrerequisites(heap[output_sample])) =>
        generate_spin_parameters(heap[output_sample]) = Returned(heap[output_sample])

\* C22: without the eleven spherical keys and without both chi_1 and chi_2,
\* generate_component_spins hands back its input with the same keys and values;
\* generate_spin_parameters then raises a key error, unless the sample already holds
\* every key it reads, and the orchestrator logs it and goes on with its sample as it was.
C22_Step ==
    (o_pc = "spin" /\ NoSpinPrerequisites(heap[output_sample])) =>
        /\ generate_component_spins(heap[output_sample]) = heap[output_sample]
        /\ IF SpinKeysRead \subseteq DOMAIN heap[output_sample]
           THEN generate_spin_parameters(heap[output_sample]).status = "returned"
           ELSE /\ generate_spin_parameters(heap[output_sample]).status = "KeyError"
                /\ o_pc' = "source"
                /\ o_log' = o_log \cup {"spin"}
                /\ o_error' = ""
                /\ heap' = heap /\ output_sample' = output_sample
C22_SpinGenerationSkipped == [][C22_Step]_vars

\* the spin family was skipped on a sample that holds a mass ratio and no spin
\* prerequisites
C22_Witness ==
    /\ o_pc = "source" /\ "spin" \in o_log /\ o_error = ""
    /\ NoSpinPrerequisites(heap[output_sample])
    /\ Has(heap[output_sample], "mass_ratio")

\* ------------------------------------------------ claims on the mass round trip
\* C23: for mass_1 > mass_2 > 0, the component masses mapped to chirp mass, total mass,
\* mass ratio and symmetric mass ratio and mapped back from any spanning pair of these
\* are the component masses again (in exact arithmetic, so within rounding in floats).
C23_RoundTrip ==
    call_pc = "done" => (result.mass_1 = args.mass_1 /\ result.mass_2 = args.mass_2)

\* masses 5 and 3 came back from chirp mass and total mass, through the symmetric
\* mass ratio and the mass ratio
C23_Witness ==
    /\ call_pc = "done"
    /\ args.pair = {"chirp_mass", "total_mass"}
    /\ args.mass_1 = Whole(5) /\ args.mass_2 = Whole(3)
    /\ result.mass_2 = Whole(3)

\* ------------------------------------------------ claims on the order of the stages
\* the stages that may come right after each stage
StagesAfter(stage) ==
    CASE stage = "seed" -> {"priors"}
      [] stage = "priors" -> {"base"}
      [] stage = "base" -> {"logl", "mass", "raised"}
      [] stage = "logl" -> {"recon", "raised"}
      [] stage = "recon" -> {"in_recon", "replace"}
      [] stage = "in_recon" -> {"replace", "raised"}
      [] stage = "replace" -> {"sky"}
      [] stage = "sky" -> {"snr", "raised"}
      [] stage = "snr" -> {"mass", "raised"}
      [] stage = "mass" -> {"spin"}
      [] stage = "spin" -> {"source"}
      [] stage = "source" -> {"tidal", "returned"}
      [] stage = "tidal" -> {"returned"}
      [] OTHER -> {}

\* C24: within one call the stages are taken one at a time in the order seed,
\* fixed-prior fill, base conversion, per-detector log-likelihoods, reconstruction,
\* sky frame, SNRs, mass, spin, source frame: the orchestrator moves on only when the
\* stage before has returned, raised or been skipped, and its sample is not touched
\* while the reconstruction runs. So at the SNR stage the sample holds the columns of
\* a reconstruction that succeeded, and past the fixed-prior fill a key fixed by a
\* prior holds the prior's value, not the seeded default.
C24_Step ==
    /\ o_pc' # o_pc => o_pc' \in StagesAfter(o_pc)
    /\ o_pc' = o_pc => (o_pc = "in_recon" /\ heap' = heap /\ output_sample' = output_sample)
    /\ (o_pc = "in_recon" /\ o_pc' # o_pc) => pc \in {"returned", "raised", "failed"}
C24_State ==
    /\ pc # "idle" => o_pc = "in_recon"
    /\ (o_pc \in {"snr"} \cup AfterSnrs /\ o_kind = "DataFrame"
            /\ ~ReconstructionFailed) =>
          \A key \in likelihood.marginalized_parameters :
              HoldsReconstructed(heap[output_sample], key)
    /\ (o_pc \notin {"idle", "seed", "priors"} /\ priors.given) =>
          \A name \in priors.fixed : heap[output_sample][name] = <<"peak", name>>
C24_StagesInOrder == []C24_State /\ [][C24_Step]_vars

\* a call returned after a reconstruction over two blocks, with SNRs computed after
\* it and the minimum frequency fixed by its prior
C24_Witness ==
    /\ o_pc = "returned" /\ o_rows = 3
    /\ HoldsReconstructed(heap[output_sample], "luminosity_distance")
    /\ Has(heap[output_sample], "H1_optimal_snr")
    /\ priors.given
    /\ heap[output_sample]["minimum_frequency"] = <<"peak", "minimum_frequency">>

\* ------------------------------------------------ claims on the base converters
\* C26: whenever one of the two base converters returns, added_keys lists, each once,
\* exactly the keys of the converted sample that the input did not hold, and every
\* key of the input is a key of the converted sample; when the input holds none of
\* the tidal keys, the neutron-star converter sets lambda_1 and lambda_2 to 0 and
\* lists both as added.
C26_AddedKeys ==
    (call_pc = "done" /\ result.status = "returned") =>
        /\ DOMAIN result.added_keys = (DOMAIN result.value) \ (DOMAIN args.parameters)
        /\ \A key \in DOMAIN result.added_keys : result.added_keys[key] = 1
        /\ DOMAIN args.parameters \subseteq DOMAIN result.value
        /\ (args.converter = "bns" /\ (DOMAIN args.parameters) \cap TidalKeys = {}) =>
              /\ result.value["lambda_1"] = <<"0">>
              /\ result.value["lambda_2"] = <<"0">>
              /\ {"lambda_1", "lambda_2"} \subseteq DOMAIN result.added_keys

\* the neutron-star converter returned on an input without tidal keys, having also
\* added a luminosity distance and spin keys
C26_Witness ==
    /\ call_pc = "done" /\ result.status = "returned"
    /\ args.converter = "bns"
    /\ (DOMAIN args.parameters) \cap TidalKeys = {}
    /\ {"lambda_1", "lambda_2", "luminosity_distance", "a_1", "cos_tilt_1", "tilt_1"}
          \subseteq DOMAIN result.added_keys

\* ------------------------------------------------ claims on source-frame keys
DistanceKeys == {"luminosity_distance", "redshift", "comoving_distance"}

\* C30: on an input that holds a key ending in _source and at least one of
\* luminosity_distance, redshift and comoving_distance, the black-hole converter
\* returns, and the key without the suffix holds the source-frame value times
\* (1 + redshift), the redshift being the input's or derived from the distance held.
C30_SourceKeysConverted ==
    (call_pc = "done" /\ args.converter = "bbh"
        /\ (DOMAIN args.parameters) \cap SourceKeys # {}
        /\ (DOMAIN args.parameters) \cap DistanceKeys # {}) =>
        /\ result.status = "returned"
        /\ Has(result.value, "redshift")
        /\ \A key \in (DOMAIN args.parameters) \cap SourceKeys :
              result.value[StripSource(key)] =
                  F2("times_one_plus", args.parameters[key], result.value["redshift"])

\* ------------------------------------- claims on resuming with another block size
\* C27: over runs on the same table with caching on, each interrupted or completed and
\* each with a block size of its own, the run that completes assigns to every row the
\* value reconstructed from that row: as many values as rows, in the order of the rows.
C27_CompletedRunAssignsEveryRow ==
    (pc = "returned" /\ nmarg > 0 /\ kind = "DataFrame") =>
        /\ column.set
        /\ Len(column.rows) = Len(samples)
        /\ \A k \in 0..(Len(samples) - 1) : column.rows[k + 1] = fill_sample(samples[k + 1])

\* ------------------------------------------------ claims on the shape of the cache
IsPrefix(s, t) == Len(s) <= Len(t) /\ \A j \in 1..Len(s) : t[j] = s[j]

\* C28: in a run that starts from an empty cache or from a cache written with the same
\* block size b, the keys of the in-memory cache are 0, b, ..., (k - 1) * b in this
\* order of insertion, the block at key i holds min(b, n - i) rows, and blocks are
\* only ever added during the run.
C28_State ==
    (pc \notin {"idle", "entry"} /\ nmarg > 0 /\ kind = "DataFrame") =>
        \A j \in 1..Len(cached_samples_dict.blocks) :
            /\ cached_samples_dict.blocks[j].key = (j - 1) * block
            /\ Len(cached_samples_dict.blocks[j].rows)
                  = Min(block, Len(samples) - cached_samples_dict.blocks[j].key)
C28_Step ==
    (pc \notin {"idle", "entry"} /\ pc' # "idle") =>
        IsPrefix(cached_samples_dict.blocks, cached_samples_dict'.blocks)
C28_CacheShape == []C28_State /\ [][C28_Step]_vars

\* a run that reused the first block of a killed run returned with a short last block
C28_Witness ==
    /\ pc = "returned" /\ column.set
    /\ prev.killed /\ Len(loaded) = 1
    /\ block = 2 /\ Len(samples) = 3
    /\ Len(cached_samples_dict.blocks) = 2
    /\ Len(cached_samples_dict.blocks[2].rows) = 1

\* ------------------------------------------------ claims on the end of the block loop
\* ceil(n / b)
Ceil(n, b) == (n + b - 1) \div b

\* C29: on a table of n >= 0 rows with block size b, with marginalized parameters
\* declared and no row failing, the block loop ends after ceil(n / b) steps, and the
\* call returns (it does not raise) with a column of n rows.
C29_LoopEndsAndReturns ==
    (Reconstructing /\ pc # "failed") =>
        /\ ii % block = 0
        /\ ii <= Ceil(Len(samples), block) * block
        /\ pc # "raised"
        /\ pc = "returned" =>
              /\ ii = Ceil(Len(samples), block) * block
              /\ column.set
              /\ Len(column.rows) = Len(samples)

====
